---- MODULE Spec2Model ----
(***************************************************************************)
(* Shuai-KV: a Raft-replicated key-value store on an LSM engine.           *)
(*                                                                         *)
(* Part I models the Raft node (raft/pod.hpp: Pod and its per-peer         *)
(* Follower replicators), the Raft log (raft/raft_log.hpp) and the client  *)
(* Put/Get handlers.  An RPC is a synchronous call with a 2 s deadline: it *)
(* is one step in which the handler runs on the callee and the caller      *)
(* reads the response ("ok"), or the handler runs and the response is lost *)
(* to the deadline ("lost"), or the call never reaches the callee          *)
(* ("fail").  Times are abstracted: an election timeout may fire on any    *)
(* node that is not Leader.                                                *)
(*                                                                         *)
(* followers_ of a node is the configuration without the node itself (the  *)
(* arithmetic of the code, "1 + followers_.size()" nodes, reads it so).    *)
(*                                                                         *)
(* Part II models the engine (db.hpp: DB, lsm/manifest.hpp: Manifest).     *)
(*                                                                         *)
(* The specifications at the end put the actions together for one kind of  *)
(* run each: elections, replication, a four-node quorum, one vote round,   *)
(* a stable deployment under fairness, convergence of the replicas, a      *)
(* cluster whose leader is isolated, a leader whose ring fills up, the     *)
(* engine alone, and one operation on a drawn Manifest.                    *)
(***************************************************************************)
EXTENDS Integers, Sequences, FiniteSets, TLC

\* ------------------------------------------------------------------ bounds
MaxTerm == 2
MaxPuts == 3                     \* client Puts on the cluster
ReplPuts == 2                    \* client Puts in the replication runs
MaxDBPuts == 4                   \* Puts on the engine
MaxSSTs == 2                     \* SSTs of a level in a drawn Manifest
MaxNodes == 3                    \* nodes a skip list allocates
MaxLevel == 2                    \* largest level RandLevel() returns
WakeupPuts == 3                  \* Puts on the engine in the wake-up runs
MaxAccess == 5                   \* largest access_counter_ of a BlockCache
MemtableMaxSize == 1             \* DBConfig::memtable_max_size, in entries
RingBufferSize == 4              \* RingBufferQueue::ring_buffer_size_, scaled

\* ------------------------------------------------------------- constants
AllNodes == {1, 2, 3, 4}
Keys == {"k"}
PutKeys == {"k", "j"}            \* the keys of the convergence runs
DBKeys == {"a", "b", "c"}
EmptyKey == ""
Uninit == 0                      \* leader_id_ has no initialiser
SizeT == 1048576                 \* size_t wraps here (2^64, scaled)
MaxCapacity == 6                 \* Config::max_capacity, scaled
MinBlockSize == 4                \* Config::min_block_size, scaled
MaxBlockSize == 4                \* Config::max_block_size, scaled
KeyShift == 2                    \* MakeKey shifts sst_id by 32 bits, scaled
Huge == 1000000                  \* a negative int64 read as size_t

VARIABLES
    cluster,      \* raft.cfg: the ids of the nodes of the deployment
    term,         \* Pod::term_
    status,       \* Pod::status_
    voted,        \* Pod::voted_
    leader_id,    \* Pod::leader_id_
    ticket_num,   \* RequestVote's local ticket_num
    votePos,      \* RequestVote's position in followers_ (0: not in RequestVote)
    rlog,         \* Pod::raft_log_: data, index, commited, last_append, start_index
    nextindex,    \* Follower::nextindex_ of node l's replicator for peer f
    db,           \* the node's engine, as RaftLog's applier and Pod::Get see it
    puts,         \* the client Put requests and their responses
    voteRsp,      \* RequestVote's local req/rsp of the latest RPC it made
    votesCast,    \* history: the term of the node's latest vote and the votes it cast in it
    hbDelivered   \* history: the peers a Leader's heartbeat reached since its election

raftVars == <<cluster, term, status, voted, leader_id, ticket_num, votePos,
              rlog, nextindex, db, puts, voteRsp, votesCast, hbDelivered>>

\* Part II: the engine (db.hpp: DB), with one writer thread, one reader thread
\* and the ToSSTLoop thread.  A table (memtable or SST) is a map from the keys
\* to the value stored, 0 where the key is absent; sizes are counted in entries.
VARIABLES
    memtable,     \* DB::memtable_
    inmemtables,  \* DB::inmemtables_, oldest first
    flushing,     \* ToSSTLoop's local memtable: <<>> or <<the table it erased>>
    levels,       \* manifest_queue_.back()->levels_, each a sequence of SSTs
    sst_id,       \* DB::sst_id_
    putPc,        \* the writer inside DB::Put: <<>> or <<[key, value]>>
    nput,         \* Puts started so far (the n-th Put writes the value n)
    completed,    \* history: per key, the value of the latest Put that returned
    getPc,        \* the reader inside DB::Get, between its two locked blocks
    getRes,       \* the latest DB::Get that returned, and what it had to find
    manifest_queue, \* DB::manifest_queue_ without its back: the older Manifests,
                  \* each [levels, max_sst_id], that a reader may still hold
    max_sst_id,   \* manifest_queue_.back()->max_sst_id_
    files         \* the SST files: id |-> the content of <id>.sst, which every
                  \* SST object of that id maps MAP_SHARED

manifestVars == <<manifest_queue, max_sst_id, files>>

\* The engine with several Put callers and its destructor
VARIABLES
    wpc,              \* per caller of DB::Put: where it is inside Put
    dtor,             \* DB::~DB: "alive", then "pushed", "joining", "done"
    to_sst_stop_flag, \* DB::to_sst_stop_flag_
    worker,           \* the ToSSTLoop thread: "running", "exited", "crashed"
    saved             \* <<>> or <<the levels Manifest::Save wrote>>

engineVars == <<wpc, dtor, to_sst_stop_flag, worker, saved>>

\* Part III: a MemTable (ConcurrentSkipList) and a BlockCache on their own
VARIABLES
    skip,         \* the ConcurrentSkipList: head_, the nodes, size_, binary_size_
    expected,     \* history: key |-> the value of its last Put not followed by
                  \* a Delete, 0 if there is none
    cache,        \* the BlockCache: lru_list_, stats_, config_
    appendRsp,    \* the last Append a node handled on its own: the request,
                  \* the code it returned, and seq, which flips at every one
    applied       \* history: node |-> the db_->Put calls of its applier, in
                  \* order, each with the log index it was made for

partVars == <<skip, expected, cache, appendRsp, applied>>

auxVars == <<engineVars, partVars>>

dbVars == <<memtable, inmemtables, flushing, levels, sst_id, putPc, nput,
            completed, getPc, getRes, manifestVars, auxVars>>

vars == <<raftVars, dbVars>>

\* ------------------------------------------------------------- helpers
Max(a, b) == IF a > b THEN a ELSE b
Min(a, b) == IF a < b THEN a ELSE b

RECURSIVE SortedSeq(_)
SortedSeq(S) ==
    IF S = {} THEN <<>>
    ELSE LET m == CHOOSE x \in S : \A y \in S : x <= y
         IN  <<m>> \o SortedSeq(S \ {m})

\* Pod::Pod: one Follower per configured address
Followers(n) == cluster \ {n}
FollowerSeq(n) == SortedSeq(Followers(n))

\* a size_t parameter that receives an int64
ToSizeT(x) == IF x < 0 THEN Huge ELSE x

\* ------------------------------------------------------------- RaftLog
DefaultEntry == [key |-> EmptyKey, value |-> 0, term |-> 0]

\* RaftLog::RaftLog with no raft_log_meta file
NewLog ==
    [data |-> [i \in 0..(RingBufferSize - 1) |-> DefaultEntry],
     index |-> 0, commited |-> 0, last_append |-> 0, start_index |-> 0,
     tail |-> 0]

\* RingBufferQueue: head_ (tail_ stays 0: nothing pops the front)
QHead(lg) == lg.index - lg.start_index

\* RingBufferQueue::PushBack's test ((head_ + 1) & mask) == tail_
RingFull(lg) == ((QHead(lg) + 1) % RingBufferSize) = lg.tail

\* RaftLog::At(index) = queue_.RAt(index_ - index) = data_[head_ - (index_ - index)]
LogAt(lg, i) ==
    LET slot == QHead(lg) - (lg.index - i)
    IN  IF slot \in DOMAIN lg.data THEN lg.data[slot] ELSE DefaultEntry

\* RaftLog::Put(key, value, term, idx): the leader's append
LogPut(lg, k, v, t) ==
    [lg EXCEPT !.data[QHead(lg) + 1] = [key |-> k, value |-> v, term |-> t],
               !.index = lg.index + 1]

\* RaftLog::Put without PushBack's refusal
RaftLogPut_NoFullCheck(lg, k, v, t) ==
    [ok |-> TRUE, lg |-> LogPut(lg, k, v, t)]

\* RaftLog::Put(key, value, term, idx) with PushBack's refusal: whether it
\* succeeded, and the log after it
RaftLogPut(lg, k, v, t) ==
    IF RingFull(lg) THEN [ok |-> FALSE, lg |-> lg]
    ELSE [ok |-> TRUE, lg |-> LogPut(lg, k, v, t)]

\* RaftLog::Put(Entry&): the follower's append of a replicated entry
LogPutEntry(lg, e) ==
    IF RingFull(lg) THEN lg
    ELSE
    [lg EXCEPT !.data[QHead(lg) + 1] = [key |-> e.key, value |-> e.value, term |-> e.term],
               !.index = lg.index + 1,
               !.commited = IF e.commited > lg.commited THEN e.commited ELSE lg.commited]

\* RaftLog::Reset(expect_index): queue_.Truncate(index_ - expect_index)
LogReset(lg, expect) ==
    IF lg.index > expect
    THEN LET removed == Min(lg.index - expect, QHead(lg))
         IN  [lg EXCEPT !.index = lg.index - removed]
    ELSE lg

\* RaftLog::UpdateCommit without the std::max against commited_
UpdateCommit_NoMax(lg, leader_commit) ==
    [lg EXCEPT !.commited = Min(lg.index, leader_commit)]

\* RaftLog::UpdateCommit(leader_commit)
UpdateCommit(lg, leader_commit) ==
    [lg EXCEPT !.commited = Max(lg.commited, Min(lg.index, leader_commit))]

\* ------------------------------------------------- Follower (replicator)
SetMax(S) == CHOOSE x \in S : \A y \in S : y <= x

\* Follower::Run, lines 140-148: sum counts the leader, this peer and every
\* other peer whose nextindex_ is at least this peer's
QuorumSum(l, f, nf) ==
    2 + Cardinality({o \in Followers(l) \ {f} : nextindex[l][o] >= nf})

QuorumOk(l, f, nf) ==
    LET sum == QuorumSum(l, f, nf)
    IN  sum >= (sum + Cardinality(Followers(l) \ {f}) + 1) \div 2

\* the replicator of peer f is inside the shipping loop of Follower::Run
InLoop(l, f) == nextindex[l][f] < rlog[l].index

\* Follower::Stop on every replicator: one that is inside the shipping loop
\* leaves it by the break on stop_ and still runs the quorum lines with its
\* current nextindex_; one that sleeps in the outer loop just ends.  The
\* result is the leader's log after any of these.
StoppedLogs(l) ==
    LET cand == {f \in Followers(l) : InLoop(l, f) /\ QuorumOk(l, f, nextindex[l][f])}
    IN  { [rlog[l] EXCEPT !.commited =
              SetMax({rlog[l].commited} \cup
                     {Min(rlog[l].index, ToSizeT(nextindex[l][f])) : f \in S})]
          : S \in SUBSET cand }

\* ------------------------------------------------------------------ Pod
\* a Vote without the comparison of the log indexes (lines 243-245 removed)
Vote_NoLogCheck(n, req) ==
    LET reject == [granted |-> FALSE, term |-> term[n], status |-> status[n],
                   voted |-> voted[n], stop |-> FALSE]
    IN  IF req.term < term[n] THEN reject
        ELSE IF req.term = term[n] /\ voted[n] THEN reject
        ELSE [granted |-> TRUE,
              term    |-> req.term,
              status  |-> IF req.term > term[n] THEN "Follower" ELSE status[n],
              voted   |-> TRUE,
              stop    |-> req.term > term[n] /\ status[n] = "Leader"]

\* Pod::Vote: the voter's new term, role and voted flag, whether the vote is
\* granted and whether the voter (a Leader so far) stops its replicators
Vote(n, req) ==
    LET reject == [granted |-> FALSE, term |-> term[n], status |-> status[n],
                   voted |-> voted[n], stop |-> FALSE]
    IN  IF req.term < term[n] THEN reject
        ELSE IF req.term = term[n] /\ req.index < rlog[n].index THEN reject
        ELSE IF req.term = term[n] /\ voted[n] THEN reject
        ELSE [granted |-> TRUE,
              term    |-> req.term,
              status  |-> IF req.term > term[n] THEN "Follower" ELSE status[n],
              voted   |-> TRUE,
              stop    |-> req.term > term[n] /\ status[n] = "Leader"]

\* EasyKvServiceServiceImpl::RequestVote: the response code
VoteCode(v) == IF v.granted THEN 0 ELSE -1

\* Pod::UpdateRaftLog
UpdateRaftLog(lg, entries, leader_commit) ==
    IF Len(entries) = 1
    THEN LET e == entries[1]
         IN  IF e.index # lg.index + 1
             THEN LET lg2 == IF leader_commit < lg.index /\ leader_commit > lg.commited
                             THEN LogReset(lg, lg.commited) ELSE lg
                  IN  IF e.index # lg2.index + 1
                      THEN [lg |-> lg2, code |-> -2]
                      ELSE [lg |-> LogPutEntry(lg2, e), code |-> 0]
             ELSE [lg |-> LogPutEntry(lg, e), code |-> 0]
    ELSE [lg |-> lg, code |-> -3]

\* Pod::SolveAppend on node f: every outcome (one per way its replicators
\* stop, when it was a Leader)
SolveAppend(f, req) ==
    LET adopt == \/ req.term > term[f]
                 \/ /\ req.term = term[f]
                    /\ req.entrys # <<>>
                    /\ req.entrys[1].index > rlog[f].index
        lgs   == IF adopt /\ status[f] = "Leader" THEN StoppedLogs(f) ELSE {rlog[f]}
    IN  { LET lg1 == UpdateCommit(lg0, req.commited_index)
              r   == IF req.entrys # <<>>
                     THEN UpdateRaftLog(lg1, req.entrys, req.commited_index)
                     ELSE [lg |-> lg1, code |-> 0]
          IN  [term      |-> IF adopt THEN req.term ELSE term[f],
               voted     |-> IF adopt THEN FALSE ELSE voted[f],
               status    |-> IF adopt THEN "Follower" ELSE status[f],
               leader_id |-> IF adopt THEN req.id ELSE leader_id[f],
               lg        |-> r.lg,
               code      |-> r.code]
          : lg0 \in lgs }

\* Pod::HeartBeat's AppendReq: the leader's term, id and commit index, no entry
HeartBeatReq(l) ==
    [term |-> term[l], id |-> l, commited_index |-> rlog[l].commited,
     entrys |-> <<>>]

\* Follower::Run's AppendReq for peer f: the entry after nextindex_, with the
\* entry's own term and the leader's commit index inside the entry; the
\* request's term and commited_index are never set and read 0
EntryReq(l, f) ==
    LET me == LogAt(rlog[l], nextindex[l][f] + 1)
    IN  [term |-> 0, id |-> l, commited_index |-> 0,
         entrys |-> << [key |-> me.key, value |-> me.value,
                        index |-> nextindex[l][f] + 1,
                        commited |-> rlog[l].commited,
                        term |-> me.term] >>]

\* the Append requests leader l can have on the wire for peer f
AppendReqs(l, f) ==
    {HeartBeatReq(l)} \cup
    (IF nextindex[l][f] >= 0 /\ nextindex[l][f] < rlog[l].index
     THEN {EntryReq(l, f)} ELSE {})

\* Pod::Get
PodGet(n, k, read_from_leader) ==
    IF read_from_leader /\ status[n] # "Leader"
    THEN [code |-> -2, value |-> 0]
    ELSE [code |-> 0, value |-> db[n][k]]

\* InnerPut's exit test for the entry at index idx
InnerPutDone(n, idx) ==
    LET sum == 1 + Cardinality({f \in Followers(n) : ToSizeT(nextindex[n][f]) > idx})
    IN  sum > (1 + Cardinality(Followers(n)) + 1) \div 2

\* the vote a node casts in term t enters its history
CastVote(h, t) ==
    IF h.term = t THEN [h EXCEPT !.count = Min(h.count + 1, 2)]
    ELSE [term |-> t, count |-> 1]

\* Pod::Put on a node that is not Leader, lines 270-285: the responses it can
\* give.  leader_id_ has no initialiser: until SolveAppend sets it, the loop
\* over followers_ compares against an indeterminate value.
RedirectRsps(n) ==
    { [code |-> IF lid \in Followers(n) THEN -2 ELSE -1,
       addr |-> IF lid \in Followers(n) THEN lid ELSE 0]
      : lid \in (IF leader_id[n] = Uninit THEN cluster \cup {Uninit}
                 ELSE {leader_id[n]}) }

\* ------------------------------------------------------------------- DB
EmptyTable == [k \in DBKeys |-> 0]

\* the keys are ordered as strings
KeyRank(k) == IF k = "a" THEN 1 ELSE IF k = "b" THEN 2 ELSE 3

\* ConcurrentSkipList::binary_size, SST::binary_size
BinarySize(t) == Cardinality({k \in DBKeys : t[k] # 0})

SetMin(S) == CHOOSE x \in S : \A y \in S : x <= y
Present(t) == {KeyRank(k) : k \in {j \in DBKeys : t[j] # 0}}

\* SST::key(), the first key, and the last key (*rbegin()).key
SSTKey(sst) == SetMin(Present(sst.data))
SSTEndKey(sst) == SetMax(Present(sst.data))

RECURSIVE Reverse(_)
Reverse(q) == IF q = <<>> THEN <<>> ELSE Reverse(Tail(q)) \o <<Head(q)>>

\* the first table of a sequence that has the key: its value, 0 if none has
RECURSIVE FirstHit(_, _)
FirstHit(tabs, k) ==
    IF tabs = <<>> THEN 0
    ELSE IF Head(tabs)[k] # 0 THEN Head(tabs)[k]
    ELSE FirstHit(Tail(tabs), k)

RECURSIVE SeqSum(_)
SeqSum(q) == IF q = <<>> THEN 0 ELSE Head(q) + SeqSum(Tail(q))

\* Level::binary_size
LevelBinarySize(ssts) == SeqSum([i \in 1..Len(ssts) |-> BinarySize(ssts[i].data)])

\* Manifest::level_max_binary_size: 1 KB, 10 MB, 100 MB, ... scaled to the few
\* keys of the model: a flushed full memtable exceeds level 0, and a level
\* below it exceeds its threshold when it holds more than two entries
LevelMaxBinarySize(i) ==
    IF i = 0 THEN MemtableMaxSize ELSE MemtableMaxSize + 1

\* Level::Get's binary search on levels 1 and up: l after the loop
RECURSIVE LevelSearch(_, _, _, _)
LevelSearch(ssts, k, l, r) ==
    IF l < r
    THEN LET mid == (l + r) \div 2
         IN  IF SSTKey(ssts[mid + 1]) > KeyRank(k)
             THEN LevelSearch(ssts, k, l, mid)
             ELSE LevelSearch(ssts, k, mid + 1, r)
    ELSE l

\* Level::Get with level 0 searched oldest first
LevelGet_OldestFirst(level, ssts, k) ==
    IF level = 0
    THEN FirstHit([i \in 1..Len(ssts) |-> ssts[i].data], k)
    ELSE LET l == LevelSearch(ssts, k, 0, Len(ssts))
         IN  IF l > 0 THEN ssts[l].data[k] ELSE 0

\* Level::Get
LevelGet(level, ssts, k) ==
    IF level = 0
    THEN FirstHit(Reverse([i \in 1..Len(ssts) |-> ssts[i].data]), k)
    ELSE LET l == LevelSearch(ssts, k, 0, Len(ssts))
         IN  IF l > 0 THEN ssts[l].data[k] ELSE 0

\* Manifest::Get: the levels in order
RECURSIVE ManifestGetFrom(_, _, _)
ManifestGetFrom(lv, i, k) ==
    IF i > Len(lv) THEN 0
    ELSE IF LevelGet(i - 1, lv[i], k) # 0 THEN LevelGet(i - 1, lv[i], k)
    ELSE ManifestGetFrom(lv, i + 1, k)

ManifestGet(lv, k) == ManifestGetFrom(lv, 1, k)

\* SizeTieredCompaction(level, id) with the new SST put after the kept ones
CompactLevel_Appended(lv, level, id) ==
    LET src     == lv[level + 1]
        lv1     == IF level + 1 = Len(lv) THEN Append(lv, <<>>) ELSE lv
        next    == lv1[level + 2]
        min_key == SetMin({SSTKey(src[i]) : i \in 1..Len(src)})
        max_key == SetMax({SSTEndKey(src[i]) : i \in 1..Len(src)})
        right   == {i \in 1..Len(next) :
                       /\ ~(SSTEndKey(next[i]) < min_key)
                       /\ SSTKey(next[i]) > max_key}
        insert_r == IF right = {} THEN Len(next) + 1 ELSE SetMin(right)
        left    == {i \in 1..(insert_r - 1) : SSTEndKey(next[i]) < min_key}
        insert_l == IF left = {} THEN 0 ELSE SetMax(left)
        merged  == SelectSeq([i \in 1..Len(next) |->
                                  IF i < insert_r /\ i \notin left
                                  THEN next[i].data ELSE EmptyTable],
                             LAMBDA t : t # EmptyTable)
        queue   == Reverse([i \in 1..Len(src) |-> src[i].data]) \o merged
        new_sst == [id |-> id, data |-> [k \in DBKeys |-> FirstHit(queue, k)]]
        new_ssts == SubSeq(next, 1, insert_l) \o
                    SubSeq(next, insert_r, Len(next)) \o <<new_sst>>
    IN  [lv1 EXCEPT ![level + 1] = <<>>, ![level + 2] = new_ssts]

\* SizeTieredCompaction(level, id) with the oldest source SST first in the merge
CompactLevel_OldestWins(lv, level, id) ==
    LET src     == lv[level + 1]
        lv1     == IF level + 1 = Len(lv) THEN Append(lv, <<>>) ELSE lv
        next    == lv1[level + 2]
        min_key == SetMin({SSTKey(src[i]) : i \in 1..Len(src)})
        max_key == SetMax({SSTEndKey(src[i]) : i \in 1..Len(src)})
        right   == {i \in 1..Len(next) :
                       /\ ~(SSTEndKey(next[i]) < min_key)
                       /\ SSTKey(next[i]) > max_key}
        insert_r == IF right = {} THEN Len(next) + 1 ELSE SetMin(right)
        left    == {i \in 1..(insert_r - 1) : SSTEndKey(next[i]) < min_key}
        insert_l == IF left = {} THEN 0 ELSE SetMax(left)
        merged  == SelectSeq([i \in 1..Len(next) |->
                                  IF i < insert_r /\ i \notin left
                                  THEN next[i].data ELSE EmptyTable],
                             LAMBDA t : t # EmptyTable)
        queue   == [i \in 1..Len(src) |-> src[i].data] \o merged
        new_sst == [id |-> id, data |-> [k \in DBKeys |-> FirstHit(queue, k)]]
        new_ssts == SubSeq(next, 1, insert_l) \o <<new_sst>> \o
                    SubSeq(next, insert_r, Len(next))
    IN  [lv1 EXCEPT ![level + 1] = <<>>, ![level + 2] = new_ssts]

\* Manifest::SizeTieredCompaction(level, id); lv[level + 1] is levels_[level]
CompactLevel(lv, level, id) ==
    LET src     == lv[level + 1]
        lv1     == IF level + 1 = Len(lv) THEN Append(lv, <<>>) ELSE lv
        next    == lv1[level + 2]
        min_key == SetMin({SSTKey(src[i]) : i \in 1..Len(src)})
        max_key == SetMax({SSTEndKey(src[i]) : i \in 1..Len(src)})
        right   == {i \in 1..Len(next) :
                       /\ ~(SSTEndKey(next[i]) < min_key)
                       /\ SSTKey(next[i]) > max_key}
        insert_r == IF right = {} THEN Len(next) + 1 ELSE SetMin(right)
        left    == {i \in 1..(insert_r - 1) : SSTEndKey(next[i]) < min_key}
        insert_l == IF left = {} THEN 0 ELSE SetMax(left)
        merged  == SelectSeq([i \in 1..Len(next) |->
                                  IF i < insert_r /\ i \notin left
                                  THEN next[i].data ELSE EmptyTable],
                             LAMBDA t : t # EmptyTable)
        queue   == Reverse([i \in 1..Len(src) |-> src[i].data]) \o merged
        new_sst == [id |-> id, data |-> [k \in DBKeys |-> FirstHit(queue, k)]]
        new_ssts == SubSeq(next, 1, insert_l) \o <<new_sst>> \o
                    SubSeq(next, insert_r, Len(next))
    IN  [lv1 EXCEPT ![level + 1] = <<>>, ![level + 2] = new_ssts]

\* Manifest::SizeTieredCompaction(id): the loop over the levels, from level i
RECURSIVE SizeTieredCompaction(_, _, _)
SizeTieredCompaction(lv, i, id) ==
    IF i < Len(lv) /\ i < 5 /\ LevelBinarySize(lv[i + 1]) > LevelMaxBinarySize(i)
    THEN SizeTieredCompaction(CompactLevel(lv, i, id), i + 1, id)
    ELSE lv

\* Manifest::SizeTieredCompaction(id): the ids its single-level steps hand to
\* the SST constructor (line 448), in order, from level i
RECURSIVE CompactionIds(_, _, _)
CompactionIds(lv, i, id) ==
    IF i < Len(lv) /\ i < 5 /\ LevelBinarySize(lv[i + 1]) > LevelMaxBinarySize(i)
    THEN <<id>> \o CompactionIds(CompactLevel(lv, i, id), i + 1, id)
    ELSE <<>>

\* CanDoCompaction with the threshold of level 1 in place of level 0's
CanDoCompaction_Level1(lv) == LevelBinarySize(lv[1]) > LevelMaxBinarySize(1)

\* Manifest::CanDoCompaction
CanDoCompaction(lv) == LevelBinarySize(lv[1]) > LevelMaxBinarySize(0)

NoGet == [key |-> "", value |-> 0, floor |-> 0]

\* the callers of DB::Put
Writers == {1, 2}

IdleWriter == [pc |-> "idle", key |-> "", value |-> 0]

\* DB::DB: the flush thread runs, nothing is stopped or saved
InitEngine ==
    /\ wpc = [w \in Writers |-> IdleWriter]
    /\ dtor = "alive"
    /\ to_sst_stop_flag = FALSE
    /\ worker = "running"
    /\ saved = <<>>

InitDB ==
    /\ memtable = EmptyTable
    /\ inmemtables = <<>>
    /\ flushing = <<>>
    /\ levels = << <<>> >>
    /\ sst_id = 0
    /\ manifest_queue = <<>>
    /\ max_sst_id = 0
    /\ files = <<>>
    /\ InitEngine
    /\ putPc = <<>>
    /\ nput = 0
    /\ completed = [k \in DBKeys |-> 0]
    /\ getPc = <<>>
    /\ getRes = NoGet

\* DB::Put, line 94: memtable_->Put(key, value)
DBPutInsert(k) ==
    /\ UNCHANGED <<raftVars, manifestVars, auxVars>>
    /\ putPc = <<>>
    /\ nput < MaxDBPuts
    /\ nput' = nput + 1
    /\ memtable' = [memtable EXCEPT ![k] = nput + 1]
    /\ putPc' = <<[key |-> k, value |-> nput + 1]>>
    /\ UNCHANGED <<inmemtables, flushing, levels, sst_id, completed, getPc, getRes>>

\* DB::Put, lines 95-101: the rotation, and the return
DBPutReturn ==
    /\ UNCHANGED <<raftVars, manifestVars, auxVars>>
    /\ putPc # <<>>
    /\ IF BinarySize(memtable) > MemtableMaxSize
       THEN /\ inmemtables' = Append(inmemtables, memtable)
            /\ memtable' = EmptyTable
       ELSE UNCHANGED <<memtable, inmemtables>>
    /\ completed' = [completed EXCEPT ![putPc[1].key] = putPc[1].value]
    /\ putPc' = <<>>
    /\ UNCHANGED <<flushing, levels, sst_id, nput, getPc, getRes>>

\* DB::Get, lines 75-85: the block under memtable_lock_
DBGetMem(k) ==
    /\ UNCHANGED <<raftVars, manifestVars, auxVars>>
    /\ getPc = <<>>
    /\ LET v == FirstHit(<<memtable>> \o Reverse(inmemtables), k)
       IN  IF v # 0
           THEN /\ getRes' = [key |-> k, value |-> v, floor |-> completed[k]]
                /\ UNCHANGED getPc
           ELSE /\ getPc' = <<[key |-> k, floor |-> completed[k]]>>
                /\ UNCHANGED getRes
    /\ UNCHANGED <<memtable, inmemtables, flushing, levels, sst_id, putPc, nput,
                   completed>>

\* DB::Get, lines 86-89: the block under manifest_lock_
DBGetManifest ==
    /\ UNCHANGED <<raftVars, manifestVars, auxVars>>
    /\ getPc # <<>>
    /\ getRes' = [key |-> getPc[1].key, value |-> ManifestGet(levels, getPc[1].key),
                  floor |-> getPc[1].floor]
    /\ getPc' = <<>>
    /\ UNCHANGED <<memtable, inmemtables, flushing, levels, sst_id, putPc, nput,
                   completed>>

\* DB::ToSSTLoop, lines 135-137: the front of inmemtables_ is erased
FlushTake ==
    /\ UNCHANGED <<raftVars, manifestVars, auxVars>>
    /\ flushing = <<>>
    /\ inmemtables # <<>>
    /\ flushing' = <<Head(inmemtables)>>
    /\ inmemtables' = Tail(inmemtables)
    /\ UNCHANGED <<memtable, levels, sst_id, putPc, nput, completed, getPc, getRes>>

\* Manifest::InsertAndUpdate with the SST inserted into *this as well (not
\* the code)
ManifestInsertAndUpdate_InPlace(m, sst) ==
    LET this == [levels |-> [m.levels EXCEPT ![1] = Append(@, sst)],
                 max_sst_id |-> IF sst.id > m.max_sst_id THEN sst.id
                                ELSE m.max_sst_id]
    IN  [this |-> this, res |-> [levels |-> this.levels, max_sst_id |-> 0]]

\* Manifest::InsertAndUpdate on the Manifest m: what it leaves in m (*this) and
\* the Manifest it returns.  max_sst_id_ is raised in *this; the copy
\* constructor (lines 291-292) copies version_ and levels_ only, so the copy
\* keeps the member initialiser max_sst_id_{0}; the SST goes into the copy
ManifestInsertAndUpdate(m, sst) ==
    LET this == [levels |-> m.levels,
                 max_sst_id |-> IF sst.id > m.max_sst_id THEN sst.id
                                ELSE m.max_sst_id]
    IN  [this |-> this,
         res  |-> [levels |-> [this.levels EXCEPT ![1] = Append(@, sst)],
                   max_sst_id |-> 0]]

\* the SST constructors write <id>.sst: the files after the SSTs of lv whose
\* id is in ids were written
SSTFiles(f, lv, ids) ==
    LET at(i) == CHOOSE c \in {<<l, j>> : l \in DOMAIN lv, j \in 1..MaxSSTs + 2} :
                     c[2] \in DOMAIN lv[c[1]] /\ lv[c[1]][c[2]].id = i
        new   == {i \in ids : \E l \in DOMAIN lv : \E j \in DOMAIN lv[l] :
                                  lv[l][j].id = i}
    IN  [i \in DOMAIN f \cup new |->
            IF i \in new THEN lv[at(i)[1]][at(i)[2]].data ELSE f[i]]

\* the levels of a Manifest as a reader sees them through the mapped files
Mapped(f, lv) ==
    [l \in DOMAIN lv |-> [j \in DOMAIN lv[l] |->
        [id |-> lv[l][j].id, data |-> f[lv[l][j].id]]]]

\* DB::ToSST: the SST is built and the new manifest published
ToSST ==
    /\ UNCHANGED <<raftVars, auxVars>>
    /\ flushing # <<>>
    /\ LET sst == [id |-> sst_id + 1, data |-> flushing[1]]
           r   == ManifestInsertAndUpdate(
                      [levels |-> levels, max_sst_id |-> max_sst_id], sst)
           ins == r.res.levels
           new == SizeTieredCompaction(ins, 0, sst_id + 2)
       IN  /\ manifest_queue' = Append(manifest_queue, r.this)
           /\ IF CanDoCompaction(ins)
              THEN /\ levels' = new
                   /\ sst_id' = sst_id + 2
                   /\ max_sst_id' = Max(r.res.max_sst_id, sst_id + 2)
                   /\ files' = SSTFiles(SSTFiles(files, ins, {sst_id + 1}),
                                        new, {sst_id + 2})
              ELSE /\ levels' = ins
                   /\ sst_id' = sst_id + 1
                   /\ max_sst_id' = r.res.max_sst_id
                   /\ files' = SSTFiles(files, ins, {sst_id + 1})
    /\ flushing' = <<>>
    /\ UNCHANGED <<memtable, inmemtables, putPc, nput, completed, getPc, getRes>>

\* ------------------------------------------- MemTable and BlockCache
\* ConcurrentSkipList::ConcurrentSkipList: a head node of one level
NewSkipList == [head |-> <<0>>, nodes |-> <<>>, size |-> 0, binary_size |-> 0,
                fault |-> FALSE]

\* A position in the list is 0 for head_ or the index of a node in
\* skip.nodes; a link is 0 for nullptr or the index of a node.  A node keeps
\* its record after it is deleted (freed |-> TRUE): the memory a dangling
\* pointer still points to.  Reading nexts[level] past the end of a node's
\* vector, or any field of a freed node, is undefined: every operation is
\* taken once with g = TRUE (the read finds the old content, a null or the
\* slot an earlier out-of-range write left there) and once with g = FALSE
\* (the thread faults).  |key| is 1 and |value| is the value itself.
SkipLink(s, p, level) ==
    LET nexts == IF p = 0 THEN s.head ELSE s.nodes[p].nexts
    IN  IF level + 1 > Len(nexts) THEN 0 ELSE nexts[level + 1]

\* p->nexts[level] is an undefined access
SkipBad(s, p, level) ==
    p # 0 /\ (s.nodes[p].freed \/ level + 1 > Len(s.nodes[p].nexts))

\* while (p->nexts[level] && p->nexts[level]->key < key) p = p->nexts[level];
\* the position reached, -1 for a fault
RECURSIVE SkipWalk(_, _, _, _, _)
SkipWalk(s, p, level, key, g) ==
    IF SkipBad(s, p, level) /\ ~g THEN -1
    ELSE LET n == SkipLink(s, p, level)
         IN  IF n = 0 THEN p
             ELSE IF s.nodes[n].freed /\ ~g THEN -1
             ELSE IF KeyRank(s.nodes[n].key) < KeyRank(key)
                  THEN SkipWalk(s, n, level, key, g)
                  ELSE p

\* for (level = ...; level >= 0; --level) { the walk }: the position at the
\* end of every level, the highest level first
RECURSIVE SkipDescend(_, _, _, _, _)
SkipDescend(s, p, level, key, g) ==
    LET q == SkipWalk(s, p, level, key, g)
    IN  IF q = -1 \/ level = 0 THEN <<q>>
        ELSE <<q>> \o SkipDescend(s, q, level - 1, key, g)

\* p->nexts[level] = n, the vector padded with nullptr where it is written
\* past its end
SkipSetLink(s, p, level, n) ==
    LET nexts == IF p = 0 THEN s.head ELSE s.nodes[p].nexts
        new   == [nexts \o SubSeq(<<0, 0, 0>>, 1, level + 1 - Len(nexts))
                     EXCEPT ![level + 1] = n]
    IN  IF p = 0 THEN [s EXCEPT !.head = new]
        ELSE [s EXCEPT !.nodes[p].nexts = new]

\* ConcurrentSkipList::Put, lines 259-267: the insertion loop, from the
\* position the search ended at
RECURSIVE SkipInsert(_, _, _, _, _, _, _)
SkipInsert(s, p, level, id, new_level, key, g) ==
    LET q  == SkipWalk(s, p, level, key, g)
        s1 == IF level < new_level
              THEN SkipSetLink(SkipSetLink(s, id, level, SkipLink(s, q, level)),
                               q, level, id)
              ELSE s
    IN  IF q = -1 THEN [s EXCEPT !.fault = TRUE]
        ELSE IF level = 0 THEN s1
        ELSE SkipInsert(s1, q, level - 1, id, new_level, key, g)

\* ConcurrentSkipList::Get: the value, 0 where the key is not found, -1 for a
\* fault
SkipGet(s, key, g) ==
    LET path == SkipDescend(s, 0, Len(s.head) - 1, key, g)
        p    == path[Len(path)]
        n    == SkipLink(s, p, 0)
    IN  IF p = -1 \/ (SkipBad(s, p, 0) /\ ~g) THEN -1
        ELSE IF n = 0 THEN 0
        ELSE IF s.nodes[n].freed /\ ~g THEN -1
        ELSE IF s.nodes[n].key = key THEN s.nodes[n].value ELSE 0

\* ConcurrentSkipList::Put with RandLevel() = new_level
SkipPut(s, key, value, new_level, g) ==
    LET Pad(q, len) == q \o SubSeq(<<0, 0, 0>>, 1, len - Len(q))
        path == SkipDescend(s, 0, Len(s.head) - 1, key, g)
        p    == path[Len(path)]
        n    == SkipLink(s, p, 0)
        id   == Len(s.nodes) + 1
        node == [key |-> key, value |-> value, freed |-> FALSE,
                 nexts |-> SubSeq(<<0, 0, 0>>, 1, new_level)]
        s1   == [s EXCEPT !.nodes = Append(@, node), !.size = @ + 1,
                          !.binary_size = @ + 1 + value]
        grow == new_level > Len(s.head)
        \* lines 246-253: head_ and the nodes of the recorded path are resized
        onpath == {path[j] : j \in 1..(Len(path) - 1)} \ {0}
        s2   == IF grow
                THEN [s1 EXCEPT !.head = Pad(@, new_level),
                                !.nodes = SubSeq([i \in DOMAIN s1.nodes |->
                                    IF i \in onpath
                                    THEN [s1.nodes[i] EXCEPT
                                              !.nexts = Pad(@, new_level)]
                                    ELSE s1.nodes[i]], 1, Len(s1.nodes))]
                ELSE s1
        path2 == SkipDescend(s2, 0, Len(s2.head) - 1, key, g)
        p2   == IF grow THEN path2[Len(path2)] ELSE p
        s3   == [s2 EXCEPT !.nodes[id].nexts = Pad(@, Len(s2.head))]
    IN  IF p = -1 \/ (SkipBad(s, p, 0) /\ ~g) \/ (n # 0 /\ s.nodes[n].freed /\ ~g)
        THEN [s EXCEPT !.fault = TRUE]
        ELSE IF n # 0 /\ s.nodes[n].key = key
        THEN [s EXCEPT !.nodes[n].value = value,
                       !.binary_size = @ + value - s.nodes[n].value]
        ELSE IF p2 = -1 THEN [s EXCEPT !.fault = TRUE]
        ELSE SkipInsert(s3, p2, Len(s3.head) - 1, id, new_level, key, g)

\* ConcurrentSkipList::Delete
SkipDelete(s, key, g) ==
    LET top   == Len(s.head) - 1
        path  == SkipDescend(s, 0, top, key, g)
        ok    == Len(path) = top + 1 /\ path[top + 1] # -1 /\
                 \A l \in 0..top :
                     LET t == SkipLink(s, path[top + 1 - l], l)
                     IN  g \/ (~SkipBad(s, path[top + 1 - l], l) /\
                               (t = 0 \/ ~SkipBad(s, t, l)))
        prev(l) == path[top + 1 - l]
        target(l) == LET t == SkipLink(s, prev(l), l)
                     IN  IF t # 0 /\ s.nodes[t].key = key THEN t ELSE 0
        Cut(q, nexts) ==
            SubSeq([i \in DOMAIN nexts |->
                       IF i - 1 <= top /\ prev(i - 1) = q /\ target(i - 1) # 0
                       THEN SkipLink(s, target(i - 1), i - 1) ELSE nexts[i]],
                   1, Len(nexts))
        d     == target(0)
        s1    == [s EXCEPT !.head = Cut(0, @),
                           !.nodes = SubSeq([i \in DOMAIN s.nodes |->
                                                [s.nodes[i] EXCEPT
                                                    !.nexts = Cut(i, @)]],
                                            1, Len(s.nodes))]
        s2    == [s1 EXCEPT !.nodes[d].freed = TRUE, !.size = @ - 1,
                            !.binary_size = @ - (1 + s.nodes[d].value)]
        keep  == SetMax({1} \cup {i \in DOMAIN s2.head : s2.head[i] # 0})
    IN  IF ~ok THEN [s EXCEPT !.fault = TRUE]
        ELSE IF d = 0 THEN s1
        ELSE [s2 EXCEPT !.head = SubSeq(@, 1, keep)]

\* BlockCache::BlockCache(config): nothing cached
\* lru_list holds the blocks, the most recently used first; cache_map_ is
\* the map from the key of every block of the list to the block.  call,
\* ret and evicted record the last call, what it returned and the keys it
\* evicted, in the order it evicted them.
NewBlockCache(count) ==
    [lru_list |-> <<>>, current_size |-> 0, current_count |-> 0,
     access_counter |-> 0, max_block_count |-> count,
     call |-> [op |-> "none", key |-> 0], ret |-> "none", evicted |-> <<>>]

\* BlockCache::MakeKey: (sst_id << 32) | block_offset, on a 64-bit
\* block_offset; | is + where the offset is below the shift and the offset's
\* high bits land on the sst_id's otherwise
MakeKey(sst, offset) ==
    IF offset < KeyShift THEN sst * KeyShift + offset
    ELSE IF sst % 2 = 1 THEN sst * KeyShift + (offset - KeyShift)
    ELSE (sst + 1) * KeyShift + (offset - KeyShift)

\* cache_map_.find(key): the place of the block in lru_list, 0 for end()
CacheFind(c, key) ==
    IF \E i \in DOMAIN c.lru_list : c.lru_list[i].key = key
    THEN CHOOSE i \in DOMAIN c.lru_list : c.lru_list[i].key = key
    ELSE 0

\* BlockCache::MoveToFront of the block at place i, its access_time_ set
\* by the caller to t
MoveToFront(list, i, t) ==
    <<[list[i] EXCEPT !.access_time = t]>>
        \o SubSeq(list, 1, i - 1) \o SubSeq(list, i + 1, Len(list))

\* BlockCache::RemoveBlock of the block at place i, and the erase from
\* cache_map_ that follows it
RemoveBlock(c, i) ==
    [c EXCEPT !.lru_list = SubSeq(@, 1, i - 1) \o SubSeq(@, i + 1, Len(@)),
              !.current_size = (@ + SizeT - c.lru_list[i].size) % SizeT,
              !.current_count = @ - 1]

\* BlockCache::EvictIfNeeded
RECURSIVE EvictIfNeeded(_, _)
EvictIfNeeded(c, new_block_size) ==
    IF /\ \/ (c.current_size + new_block_size) % SizeT > MaxCapacity
          \/ (c.max_block_count > 0 /\ c.current_count >= c.max_block_count)
       /\ c.lru_list # <<>>
    THEN EvictIfNeeded(
             [RemoveBlock(c, Len(c.lru_list)) EXCEPT
                 !.evicted = Append(@, c.lru_list[Len(c.lru_list)].key)],
             new_block_size)
    ELSE c

\* no Append handled yet
NoAppend ==
    [seq |-> 0, code |-> 0,
     req |-> [term |-> 0, id |-> 0, commited_index |-> 0, entrys |-> <<>>]]

\* the parts of Part III as constructed
InitParts ==
    /\ skip = NewSkipList
    /\ expected = [k \in DBKeys |-> 0]
    /\ cache = NewBlockCache(0)
    /\ appendRsp = NoAppend
    /\ applied = [n \in AllNodes |-> <<>>]

\* ---------------------------------------------------------------- Init
IdlePut == [state |-> "idle", node |-> 0, key |-> EmptyKey, idx |-> 0,
            code |-> 0, addr |-> 0]
NoRsp == [ok |-> FALSE, code |-> 0, to |-> 0, term |-> 0, index |-> 0]

InitPods(cl) ==
    /\ cluster = cl
    /\ term = [n \in AllNodes |-> 0]
    /\ status = [n \in AllNodes |-> "Follower"]
    /\ voted = [n \in AllNodes |-> FALSE]
    /\ leader_id = [n \in AllNodes |-> Uninit]
    /\ ticket_num = [n \in AllNodes |-> 0]
    /\ votePos = [n \in AllNodes |-> 0]
    /\ rlog = [n \in AllNodes |-> NewLog]
    /\ nextindex = [l \in AllNodes |-> [f \in AllNodes |-> 0]]
    /\ db = [n \in AllNodes |-> [k \in PutKeys \cup {EmptyKey} |-> 0]]
    /\ puts = [p \in 1..MaxPuts |-> IdlePut]
    /\ voteRsp = [n \in AllNodes |-> NoRsp]
    /\ votesCast = [n \in AllNodes |-> [term |-> 0, count |-> 0]]
    /\ hbDelivered = [n \in AllNodes |-> {}]

InitRaft(cl) == InitPods(cl) /\ InitDB /\ InitParts

\* ------------------------------------------------------------- actions
\* Pod::StartHeartBeatAndTimeOutRout, lines 472-491: the election timer of a
\* node that is not Leader expires; RequestVote starts (++term_, ticket_num = 1)
Timeout(n) ==
    /\ UNCHANGED dbVars
    /\ n \in cluster
    /\ status[n] # "Leader"
    /\ votePos[n] = 0
    /\ term[n] < MaxTerm
    /\ status' = [status EXCEPT ![n] = "Candidate"]
    /\ term' = [term EXCEPT ![n] = term[n] + 1]
    /\ ticket_num' = [ticket_num EXCEPT ![n] = 1]
    /\ votePos' = [votePos EXCEPT ![n] = 1]
    /\ votesCast' = [votesCast EXCEPT ![n] = CastVote(votesCast[n], term[n] + 1)]
    /\ UNCHANGED <<cluster, voted, leader_id, rlog, nextindex, db, puts, voteRsp,
                   hbDelivered>>

\* Pod::RequestVote, lines 386-411: one iteration of the loop over followers_;
\* outcomes are the ways the RPC can end
RequestVoteStep(n, outcomes) ==
    /\ UNCHANGED dbVars
    /\ n \in cluster
    /\ votePos[n] \in 1..Len(FollowerSeq(n))
    /\ IF status[n] # "Candidate"
       THEN /\ votePos' = [votePos EXCEPT ![n] = 0]
            /\ UNCHANGED <<cluster, term, status, voted, leader_id, ticket_num,
                           rlog, nextindex, db, puts, voteRsp, votesCast,
                           hbDelivered>>
       ELSE LET f   == FollowerSeq(n)[votePos[n]]
                req == [term |-> term[n], index |-> rlog[n].index, id |-> n]
                v   == Vote(f, req)
            IN  \E outcome \in outcomes :
                  /\ votePos' = [votePos EXCEPT ![n] = votePos[n] + 1]
                  /\ voteRsp' = [voteRsp EXCEPT ![n] =
                        [ok |-> outcome = "ok",
                         code |-> IF outcome = "ok" THEN VoteCode(v) ELSE 0,
                         to |-> f, term |-> req.term, index |-> req.index]]
                  /\ ticket_num' = [ticket_num EXCEPT ![n] =
                        IF outcome = "ok" /\ VoteCode(v) = 0
                        THEN ticket_num[n] + 1 ELSE ticket_num[n]]
                  /\ IF outcome = "fail"
                     THEN UNCHANGED <<term, status, voted, rlog, votesCast>>
                     ELSE /\ term' = [term EXCEPT ![f] = v.term]
                          /\ status' = [status EXCEPT ![f] = v.status]
                          /\ voted' = [voted EXCEPT ![f] = v.voted]
                          /\ votesCast' = [votesCast EXCEPT ![f] =
                                IF v.granted THEN CastVote(votesCast[f], req.term)
                                ELSE votesCast[f]]
                          /\ \E lg \in (IF v.stop THEN StoppedLogs(f) ELSE {rlog[f]}) :
                                rlog' = [rlog EXCEPT ![f] = lg]
                  /\ UNCHANGED <<cluster, leader_id, nextindex, db, puts, hbDelivered>>

\* Pod::RequestVote, lines 413-427, with >= in place of > at line 418
FinishElection_AtLeastHalf(n) ==
    /\ UNCHANGED dbVars
    /\ n \in cluster
    /\ votePos[n] = Len(FollowerSeq(n)) + 1
    /\ votePos' = [votePos EXCEPT ![n] = 0]
    /\ IF status[n] = "Candidate" /\
          ticket_num[n] >= (1 + Cardinality(Followers(n))) \div 2
       THEN /\ status' = [status EXCEPT ![n] = "Leader"]
            /\ nextindex' = [nextindex EXCEPT ![n] =
                                [f \in AllNodes |-> rlog[n].commited]]
            /\ hbDelivered' = [hbDelivered EXCEPT ![n] = {}]
       ELSE UNCHANGED <<status, nextindex, hbDelivered>>
    /\ UNCHANGED <<cluster, term, voted, leader_id, ticket_num, rlog, db, puts,
                   voteRsp, votesCast>>

\* Pod::RequestVote, lines 413-427: the tickets are counted
FinishElection(n) ==
    /\ UNCHANGED dbVars
    /\ n \in cluster
    /\ votePos[n] = Len(FollowerSeq(n)) + 1
    /\ votePos' = [votePos EXCEPT ![n] = 0]
    /\ IF status[n] = "Candidate" /\
          ticket_num[n] > (1 + Cardinality(Followers(n))) \div 2
       THEN /\ status' = [status EXCEPT ![n] = "Leader"]
            /\ nextindex' = [nextindex EXCEPT ![n] =
                                [f \in AllNodes |-> rlog[n].commited]]
            /\ hbDelivered' = [hbDelivered EXCEPT ![n] = {}]
       ELSE UNCHANGED <<status, nextindex, hbDelivered>>
    /\ UNCHANGED <<cluster, term, voted, leader_id, ticket_num, rlog, db, puts,
                   voteRsp, votesCast>>

\* Follower::SendHeartBeat to one peer, and Pod::SolveAppend there
Heartbeat(l, f) ==
    /\ UNCHANGED dbVars
    /\ l \in cluster /\ f \in Followers(l)
    /\ status[l] = "Leader"
    /\ LET req == HeartBeatReq(l)
       IN  \E r \in SolveAppend(f, req) :
             /\ term' = [term EXCEPT ![f] = r.term]
             /\ voted' = [voted EXCEPT ![f] = r.voted]
             /\ status' = [status EXCEPT ![f] = r.status]
             /\ leader_id' = [leader_id EXCEPT ![f] = r.leader_id]
             /\ rlog' = [rlog EXCEPT ![f] = r.lg]
    /\ hbDelivered' = [hbDelivered EXCEPT ![l] = hbDelivered[l] \cup {f}]
    /\ UNCHANGED <<cluster, ticket_num, votePos, nextindex, db, puts, voteRsp,
                   votesCast>>

\* Follower::Run, lines 101-148: one round of the shipping loop for peer f (the
\* request carries no term and no commited_index: both read 0), and the quorum
\* lines after an accepted entry.  A round at a negative nextindex_ is not
\* modelled: the guard caps the counter.
ShipEntry(l, f, outcomes) ==
    /\ UNCHANGED dbVars
    /\ l \in cluster /\ f \in Followers(l)
    /\ status[l] = "Leader"
    /\ nextindex[l][f] >= 0
    /\ nextindex[l][f] < rlog[l].index
    /\ LET req == EntryReq(l, f)
       IN  \E r \in SolveAppend(f, req), outcome \in outcomes :
             /\ term' = [term EXCEPT ![f] = r.term]
             /\ voted' = [voted EXCEPT ![f] = r.voted]
             /\ status' = [status EXCEPT ![f] = r.status]
             /\ leader_id' = [leader_id EXCEPT ![f] = r.leader_id]
             /\ IF outcome = "lost"
                THEN /\ rlog' = [rlog EXCEPT ![f] = r.lg]
                     /\ UNCHANGED nextindex
                ELSE IF r.code # 0
                THEN /\ rlog' = [rlog EXCEPT ![f] = r.lg]
                     /\ nextindex' = [nextindex EXCEPT ![l][f] = nextindex[l][f] - 1]
                ELSE LET nf == nextindex[l][f] + 1
                     IN  /\ nextindex' = [nextindex EXCEPT ![l][f] = nf]
                         /\ rlog' = [rlog EXCEPT
                               ![f] = r.lg,
                               ![l] = IF QuorumOk(l, f, nf)
                                      THEN UpdateCommit(rlog[l], nf) ELSE rlog[l]]
    /\ UNCHANGED <<cluster, ticket_num, votePos, db, puts, voteRsp, votesCast,
                   hbDelivered>>

\* RaftLog's applier thread, lines 42-59: one committed entry goes to the engine
ApplyOne(lg, d) ==
    LET la   == lg.last_append + 1
        slot == la - lg.start_index
        e    == IF slot \in DOMAIN lg.data THEN lg.data[slot] ELSE DefaultEntry
    IN  [lg  |-> [lg EXCEPT !.last_append = la],
         db  |-> [d EXCEPT ![e.key] = e.value],
         put |-> [index |-> la, key |-> e.key, value |-> e.value]]

Applier(n) ==
    /\ UNCHANGED <<memtable, inmemtables, flushing, levels, sst_id, putPc,
                   nput, completed, getPc, getRes, manifestVars, engineVars,
                   skip, expected, cache, appendRsp>>
    /\ n \in cluster
    /\ rlog[n].last_append < rlog[n].commited
    /\ rlog' = [rlog EXCEPT ![n] = ApplyOne(rlog[n], db[n]).lg]
    /\ db' = [db EXCEPT ![n] = ApplyOne(rlog[n], db[n]).db]
    /\ applied' = [applied EXCEPT ![n] = Append(@, ApplyOne(rlog[n], db[n]).put)]
    /\ UNCHANGED <<cluster, term, status, voted, leader_id, ticket_num, votePos,
                   nextindex, puts, voteRsp, votesCast, hbDelivered>>

\* Pod::Put, lines 269-294, up to InnerPut's append: the client's p-th Put,
\* of value p, reaches node n
ClientPut(n, p, k) ==
    /\ UNCHANGED dbVars
    /\ n \in cluster
    /\ puts[p].state = "idle"
    /\ \A q \in 1..(p - 1) : puts[q].state # "idle"
    /\ IF status[n] # "Leader"
       THEN /\ \E r \in RedirectRsps(n) :
                 puts' = [puts EXCEPT ![p] =
                    [state |-> "answered", node |-> n, key |-> k, idx |-> 0,
                     code |-> r.code, addr |-> r.addr]]
            /\ UNCHANGED rlog
       ELSE LET r == RaftLogPut(rlog[n], k, p, term[n])
            IN  /\ rlog' = [rlog EXCEPT ![n] = r.lg]
                /\ puts' = [puts EXCEPT ![p] =
                      IF r.ok
                      THEN [state |-> "waiting", node |-> n, key |-> k,
                            idx |-> r.lg.index, code |-> 0, addr |-> 0]
                      ELSE [state |-> "answered", node |-> n, key |-> k,
                            idx |-> 0, code |-> -1, addr |-> 0]]
    /\ UNCHANGED <<cluster, term, status, voted, leader_id, ticket_num, votePos,
                   nextindex, db, voteRsp, votesCast, hbDelivered>>

\* Pod::InnerPut, lines 358-370: the poll finds the quorum and Put answers 0
PutReturn(p) ==
    /\ UNCHANGED dbVars
    /\ puts[p].state = "waiting"
    /\ InnerPutDone(puts[p].node, puts[p].idx)
    /\ puts' = [puts EXCEPT ![p].state = "ok"]
    /\ UNCHANGED <<cluster, term, status, voted, leader_id, ticket_num, votePos,
                   rlog, nextindex, db, voteRsp, votesCast, hbDelivered>>

\* ~Pod, ~RaftLog (the applier drains what is committed, Save writes commited_
\* to raft_log_meta) and ~DB, then a new process: RaftLog::Load, Pod::Pod
RECURSIVE Drain(_, _, _)
Drain(lg, d, done) ==
    IF lg.last_append < lg.commited
    THEN Drain(ApplyOne(lg, d).lg, ApplyOne(lg, d).db,
               Append(done, ApplyOne(lg, d).put))
    ELSE [lg |-> lg, db |-> d, applied |-> done]

LoadedLog(meta) ==
    [NewLog EXCEPT !.index = meta, !.commited = meta, !.last_append = meta,
                   !.start_index = meta]

Restart(n) ==
    /\ UNCHANGED <<memtable, inmemtables, flushing, levels, sst_id, putPc,
                   nput, completed, getPc, getRes, manifestVars, engineVars,
                   skip, expected, cache, appendRsp>>
    /\ n \in cluster
    /\ votePos[n] = 0
    /\ \A p \in 1..MaxPuts : ~(puts[p].state = "waiting" /\ puts[p].node = n)
    /\ LET dr == Drain(rlog[n], db[n], applied[n])
       IN  /\ rlog' = [rlog EXCEPT ![n] = LoadedLog(dr.lg.commited)]
           /\ db' = [db EXCEPT ![n] = dr.db]
           /\ applied' = [applied EXCEPT ![n] = dr.applied]
    /\ term' = [term EXCEPT ![n] = 0]
    /\ status' = [status EXCEPT ![n] = "Follower"]
    /\ voted' = [voted EXCEPT ![n] = FALSE]
    /\ leader_id' = [leader_id EXCEPT ![n] = Uninit]
    /\ ticket_num' = [ticket_num EXCEPT ![n] = 0]
    /\ nextindex' = [nextindex EXCEPT ![n] = [f \in AllNodes |-> 0]]
    /\ hbDelivered' = [hbDelivered EXCEPT ![n] = {}]
    /\ voteRsp' = [voteRsp EXCEPT ![n] = NoRsp]
    /\ UNCHANGED <<cluster, votePos, puts, votesCast>>

\* ------------------------------------------------------- specifications
AllOutcomes == {"ok", "lost", "fail"}

Init == InitRaft({1, 2, 3})

\* Elections of a three-node cluster with no client traffic
NextElection ==
    \/ \E n \in AllNodes : Timeout(n)
    \/ \E n \in AllNodes : RequestVoteStep(n, AllOutcomes)
    \/ \E n \in AllNodes : FinishElection(n)
    \/ \E l, f \in AllNodes : Heartbeat(l, f)

SpecElection == Init /\ [][NextElection]_vars

\* Replication in a three-node cluster in which only node 1's election timer
\* expires (the other nodes keep hearing from it)
NextReplication ==
    \/ Timeout(1)
    \/ \E n \in AllNodes : RequestVoteStep(n, AllOutcomes)
    \/ \E n \in AllNodes : FinishElection(n)
    \/ \E l, f \in AllNodes : Heartbeat(l, f)
    \/ \E l, f \in AllNodes : ShipEntry(l, f, {"ok", "lost"})
    \/ \E n \in AllNodes : Applier(n)
    \/ \E n \in AllNodes, p \in 1..ReplPuts, k \in Keys : ClientPut(n, p, k)
    \/ \E p \in 1..ReplPuts : PutReturn(p)

SpecReplication == Init /\ [][NextReplication]_vars

\* A four-node cluster in which node 1 campaigns and every RPC is answered
NextQuorum4 ==
    \/ Timeout(1)
    \/ \E n \in AllNodes : RequestVoteStep(n, {"ok"})
    \/ \E n \in AllNodes : FinishElection(n)
    \/ \E l, f \in AllNodes : ShipEntry(l, f, {"ok", "lost"})
    \/ \E n \in AllNodes, p \in 1..MaxPuts, k \in Keys : ClientPut(n, p, k)
    \/ \E p \in 1..MaxPuts : PutReturn(p)

SpecQuorum4 == InitRaft({1, 2, 3, 4}) /\ [][NextQuorum4]_vars

\* One RequestVote round: candidate 1 asks voter 2 and then voter 3.  The
\* candidate and voter 2 start in any state a Pod can be in: a node of term 0
\* has never campaigned and never voted.
RECURSIVE LogOfLen(_)
LogOfLen(i) == IF i = 0 THEN NewLog ELSE LogPut(LogOfLen(i - 1), "k", i, 1)

Roles == {"Follower", "Candidate", "Leader"}

InitVote ==
    \E ct \in 1..MaxTerm, vt \in 0..MaxTerm, vs \in Roles, vv \in BOOLEAN,
       ci \in 0..Min(MaxPuts, RingBufferSize - 1),
       vi \in 0..Min(MaxPuts, RingBufferSize - 1) :
        /\ vt = 0 => (vs = "Follower" /\ ~vv)
        /\ cluster = {1, 2, 3}
        /\ term = [n \in AllNodes |-> IF n = 1 THEN ct ELSE IF n = 2 THEN vt ELSE 0]
        /\ status = [n \in AllNodes |->
                        IF n = 1 THEN "Candidate" ELSE IF n = 2 THEN vs ELSE "Follower"]
        /\ voted = [n \in AllNodes |-> n = 2 /\ vv]
        /\ leader_id = [n \in AllNodes |-> Uninit]
        /\ ticket_num = [n \in AllNodes |-> IF n = 1 THEN 1 ELSE 0]
        /\ votePos = [n \in AllNodes |-> IF n = 1 THEN 1 ELSE 0]
        /\ rlog = [n \in AllNodes |->
                      IF n = 1 THEN LogOfLen(ci) ELSE IF n = 2 THEN LogOfLen(vi)
                      ELSE NewLog]
        /\ nextindex = [l \in AllNodes |-> [f \in AllNodes |-> 0]]
        /\ db = [n \in AllNodes |-> [k \in PutKeys \cup {EmptyKey} |-> 0]]
        /\ puts = [p \in 1..MaxPuts |-> IdlePut]
        /\ voteRsp = [n \in AllNodes |-> NoRsp]
        /\ votesCast = [n \in AllNodes |->
              IF n = 1 THEN [term |-> ct, count |-> 1]
              ELSE IF n = 2 /\ vt > 0
              THEN [term |-> vt, count |-> (IF vv THEN 1 ELSE 0) +
                                           (IF vs = "Candidate" THEN 1 ELSE 0)]
              ELSE [term |-> 0, count |-> 0]]
        /\ hbDelivered = [n \in AllNodes |-> {}]
        /\ InitDB
        /\ InitParts

NextVote ==
    \/ RequestVoteStep(1, {"ok"})
    \/ FinishElection(1)

SpecVote == InitVote /\ [][NextVote]_vars

\* A stable deployment, of one node or of three: node 1 campaigns while there
\* is no leader, every RPC is answered, clients send their Puts to the leader,
\* and a single-node deployment may be closed and reopened.  Every thread of
\* the program keeps running, and the client keeps sending: weak fairness.
StableTimeout == (\A m \in cluster : status[m] # "Leader") /\ Timeout(1)
LeaderPut(n, p, k) == status[n] = "Leader" /\ ClientPut(n, p, k)
SingleRestart(n) == cluster = {n} /\ Restart(n)

NextLive ==
    \/ StableTimeout
    \/ \E n \in AllNodes : RequestVoteStep(n, {"ok"})
    \/ \E n \in AllNodes : FinishElection(n)
    \/ \E l, f \in AllNodes : Heartbeat(l, f)
    \/ \E l, f \in AllNodes : ShipEntry(l, f, {"ok"})
    \/ \E n \in AllNodes : Applier(n)
    \/ \E n \in AllNodes, p \in 1..MaxPuts, k \in Keys : LeaderPut(n, p, k)
    \/ \E p \in 1..MaxPuts : PutReturn(p)
    \/ \E n \in AllNodes : SingleRestart(n)

FairLive ==
    /\ WF_vars(StableTimeout)
    /\ \A n \in AllNodes : WF_vars(RequestVoteStep(n, {"ok"}))
    /\ \A n \in AllNodes : WF_vars(FinishElection(n))
    /\ \A l, f \in AllNodes : WF_vars(Heartbeat(l, f))
    /\ \A l, f \in AllNodes : WF_vars(ShipEntry(l, f, {"ok"}))
    /\ \A n \in AllNodes : WF_vars(Applier(n))
    /\ \A n \in AllNodes, p \in 1..MaxPuts, k \in Keys : WF_vars(LeaderPut(n, p, k))
    /\ \A p \in 1..MaxPuts : WF_vars(PutReturn(p))

\* the three-node cluster with a stable leader and a client whose Puts
\* alternate between the keys of PutKeys
PutKey(p) == IF p % 2 = 0 THEN "j" ELSE "k"
PutOn(n, p) == LeaderPut(n, p, PutKey(p))

NextConverge ==
    \/ StableTimeout
    \/ \E n \in AllNodes : RequestVoteStep(n, {"ok"})
    \/ \E n \in AllNodes : FinishElection(n)
    \/ \E l, f \in AllNodes : Heartbeat(l, f)
    \/ \E l, f \in AllNodes : ShipEntry(l, f, {"ok"})
    \/ \E n \in AllNodes : Applier(n)
    \/ \E n \in AllNodes, p \in 1..MaxPuts : PutOn(n, p)
    \/ \E p \in 1..MaxPuts : PutReturn(p)

FairConverge ==
    /\ WF_vars(StableTimeout)
    /\ \A n \in AllNodes : WF_vars(RequestVoteStep(n, {"ok"}))
    /\ \A n \in AllNodes : WF_vars(FinishElection(n))
    /\ \A l, f \in AllNodes : WF_vars(Heartbeat(l, f))
    /\ \A l, f \in AllNodes : WF_vars(ShipEntry(l, f, {"ok"}))
    /\ \A n \in AllNodes : WF_vars(Applier(n))
    /\ \A p \in 1..MaxPuts : WF_vars(PutReturn(p))

SpecConverge == Init /\ [][NextConverge]_vars /\ FairConverge

\* a later Put of the client is on the key of its p-th Put
Overwritten(p) ==
    \E q \in (p + 1)..MaxPuts :
        puts[q].state # "idle" /\ puts[q].key = puts[p].key

\* the three-node cluster whose first leader, node 1, is cut off from nodes 2
\* and 3 once it leads: every RPC to or from node 1 then ends at its deadline;
\* nodes 2 and 3 run their election timers, clients put on whoever leads
Isolated == status[1] = "Leader"

FirstTimeout == term[1] = 0 /\ Timeout(1)

IsoTimeout(n) == n # 1 /\ Isolated /\ Timeout(n)

IsoVoteStep(n) ==
    /\ votePos[n] \in 1..Len(FollowerSeq(n))
    /\ IF Isolated /\ 1 \in {n, FollowerSeq(n)[votePos[n]]}
       THEN RequestVoteStep(n, {"fail"})
       ELSE RequestVoteStep(n, {"ok"})

IsoHeartbeat(l, f) == l # 1 /\ f # 1 /\ Heartbeat(l, f)

IsoShipEntry(l, f) == l # 1 /\ f # 1 /\ ShipEntry(l, f, {"ok"})

NextIsolated ==
    \/ FirstTimeout
    \/ \E n \in AllNodes : IsoTimeout(n)
    \/ \E n \in AllNodes : IsoVoteStep(n)
    \/ \E n \in AllNodes : FinishElection(n)
    \/ \E l, f \in AllNodes : IsoHeartbeat(l, f)
    \/ \E l, f \in AllNodes : IsoShipEntry(l, f)
    \/ \E n \in AllNodes : Applier(n)
    \/ \E n \in AllNodes, p \in 1..MaxPuts, k \in Keys : LeaderPut(n, p, k)

FairIsolated ==
    /\ WF_vars(FirstTimeout)
    /\ \A n \in AllNodes : WF_vars(IsoTimeout(n))
    /\ \A n \in AllNodes : WF_vars(IsoVoteStep(n))
    /\ \A n \in AllNodes : WF_vars(FinishElection(n))
    /\ \A l, f \in AllNodes : WF_vars(IsoHeartbeat(l, f))
    /\ \A l, f \in AllNodes : WF_vars(IsoShipEntry(l, f))
    /\ \A n \in AllNodes : WF_vars(Applier(n))

SpecIsolated == Init /\ [][NextIsolated]_vars /\ FairIsolated

\* a leader in office whose ring holds any number of entries, up to its
\* capacity, all of them on its followers too and any prefix committed; the
\* appliers have not started on them
InitLog ==
    \E fill \in 0..(RingBufferSize - 1) : \E c \in 0..fill :
        /\ cluster = {1, 2, 3}
        /\ term = [n \in AllNodes |-> IF n \in {1, 2, 3} THEN 1 ELSE 0]
        /\ status = [n \in AllNodes |-> IF n = 1 THEN "Leader" ELSE "Follower"]
        /\ voted = [n \in AllNodes |-> n \in {2, 3}]
        /\ leader_id = [n \in AllNodes |-> IF n \in {2, 3} THEN 1 ELSE Uninit]
        /\ ticket_num = [n \in AllNodes |-> IF n = 1 THEN 3 ELSE 0]
        /\ votePos = [n \in AllNodes |-> 0]
        /\ rlog = [n \in AllNodes |->
                      IF n \in {1, 2, 3}
                      THEN [LogOfLen(fill) EXCEPT !.commited = c] ELSE NewLog]
        /\ nextindex = [l \in AllNodes |->
                          [f \in AllNodes |-> IF l = 1 THEN fill ELSE 0]]
        /\ db = [n \in AllNodes |-> [k \in PutKeys \cup {EmptyKey} |-> 0]]
        /\ puts = [p \in 1..MaxPuts |-> IdlePut]
        /\ voteRsp = [n \in AllNodes |-> NoRsp]
        /\ votesCast = [n \in AllNodes |->
              IF n \in {1, 2, 3} THEN [term |-> 1, count |-> 1]
              ELSE [term |-> 0, count |-> 0]]
        /\ hbDelivered = [n \in AllNodes |-> IF n = 1 THEN {2, 3} ELSE {}]
        /\ InitDB
        /\ InitParts

NextLog ==
    \/ \E p \in 1..MaxPuts, k \in Keys : LeaderPut(1, p, k)
    \/ \E f \in AllNodes : ShipEntry(1, f, {"ok"})
    \/ \E f \in AllNodes : Heartbeat(1, f)
    \/ \E n \in AllNodes : Applier(n)
    \/ \E p \in 1..MaxPuts : PutReturn(p)

SpecLog == InitLog /\ [][NextLog]_vars

\* the client's q-th Put was refused by node n because its ring was full
RefusedFull(q, n) ==
    /\ puts[q].state = "answered" /\ puts[q].code = -1 /\ puts[q].node = n
    /\ status[n] = "Leader"
    /\ RingFull(rlog[n])

\* ------------------------------------------------- a RaftLog on its own
\* the operations of the RaftLog of node n, called in any order: the
\* entries and indexes a caller can pass
SomeEntries ==
    [key : Keys, value : {7}, term : {1}, index : 0..(RingBufferSize + 1),
     commited : {0, RingBufferSize}]

\* raft_log_.Put(key, value, term, idx)
RlPut(n, k, v, t) ==
    /\ rlog' = [rlog EXCEPT ![n] = RaftLogPut(rlog[n], k, v, t).lg]
    /\ UNCHANGED <<cluster, term, status, voted, leader_id, ticket_num, votePos,
                   nextindex, db, puts, voteRsp, votesCast, hbDelivered, dbVars>>

\* raft_log_.Put(entry)
RlPutEntry(n, e) ==
    /\ rlog' = [rlog EXCEPT ![n] = LogPutEntry(rlog[n], e)]
    /\ UNCHANGED <<cluster, term, status, voted, leader_id, ticket_num, votePos,
                   nextindex, db, puts, voteRsp, votesCast, hbDelivered, dbVars>>

\* raft_log_.Reset(expect_index)
RlReset(n, expect_index) ==
    /\ rlog' = [rlog EXCEPT ![n] = LogReset(rlog[n], expect_index)]
    /\ UNCHANGED <<cluster, term, status, voted, leader_id, ticket_num, votePos,
                   nextindex, db, puts, voteRsp, votesCast, hbDelivered, dbVars>>

\* raft_log_.UpdateCommit(leader_commit)
RlUpdateCommit(n, leader_commit) ==
    /\ rlog' = [rlog EXCEPT ![n] = UpdateCommit(rlog[n], leader_commit)]
    /\ UNCHANGED <<cluster, term, status, voted, leader_id, ticket_num, votePos,
                   nextindex, db, puts, voteRsp, votesCast, hbDelivered, dbVars>>

\* RaftServiceImpl::Append -> Pod::SolveAppend on node f, for any request
HandleAppend(f, req) ==
    /\ \E r \in SolveAppend(f, req) :
          /\ term' = [term EXCEPT ![f] = r.term]
          /\ voted' = [voted EXCEPT ![f] = r.voted]
          /\ status' = [status EXCEPT ![f] = r.status]
          /\ leader_id' = [leader_id EXCEPT ![f] = r.leader_id]
          /\ rlog' = [rlog EXCEPT ![f] = r.lg]
          /\ appendRsp' = [seq |-> 1 - appendRsp.seq, code |-> r.code,
                           req |-> [term |-> req.term, id |-> req.id,
                                    commited_index |-> req.commited_index,
                                    entrys |-> req.entrys]]
    /\ UNCHANGED <<cluster, ticket_num, votePos, nextindex, db, puts, voteRsp,
                   votesCast, hbDelivered, memtable, inmemtables, flushing,
                   levels, sst_id, putPc, nput, completed, getPc, getRes,
                   manifestVars, engineVars, skip, expected, cache, applied>>

NextRaftLog ==
    \/ RlPut(2, "k", 7, 1)
    \/ \E e \in SomeEntries : RlPutEntry(2, e)
    \/ \E x \in 0..RingBufferSize : RlReset(2, x)
    \/ \E c \in 0..RingBufferSize : RlUpdateCommit(2, c)
    \/ Applier(2)

SpecRaftLog == InitLog /\ [][NextRaftLog]_vars

\* node 2 handles Append requests of zero, one or two entries
NextAppend ==
    \E t \in {0, 2}, c \in {0, 2, RingBufferSize}, e \in SomeEntries,
       len \in 0..2 :
        HandleAppend(2, [term |-> t, id |-> 1, commited_index |-> c,
                         entrys |-> SubSeq(<<e, e>>, 1, len)])

SpecAppend == InitLog /\ [][NextAppend]_vars

\* ---------------------------------------------------- Manifest alone
\* a Manifest of one to three levels: any SSTs in level 0, range-disjoint
\* SSTs in ascending order below it.  Every SST carries its id as the value
\* of each of its keys; level 0 is the newest and within a level the later
\* SST is the newer.
KeySets == (SUBSET DBKeys) \ {{}}

SeqsUpTo(S, n) == UNION {[1..m -> S] : m \in 0..n}

Stamp(level, i) == (2 - level) * MaxSSTs + i

Tab(S, v) == [k \in DBKeys |-> IF k \in S THEN v ELSE 0]

MakeLevel(level, s) ==
    [i \in 1..Len(s) |-> [id |-> Stamp(level, i), data |-> Tab(s[i], Stamp(level, i))]]

\* the SSTs of a level are pairwise range-disjoint, ascending by first key
RangeDisjoint(ssts) ==
    \A i \in 1..(Len(ssts) - 1) : SSTEndKey(ssts[i]) < SSTKey(ssts[i + 1])

\* the key sets of the SSTs of a level below level 0
DisjointSeqs ==
    {s \in SeqsUpTo(KeySets, MaxSSTs) : RangeDisjoint(MakeLevel(1, s))}

InitCompaction ==
    /\ InitPods({1, 2, 3})
    /\ memtable = EmptyTable
    /\ inmemtables = <<>>
    /\ flushing = <<>>
    /\ putPc = <<>>
    /\ nput = 0
    /\ completed = [k \in DBKeys |-> 0]
    /\ getPc = <<>>
    /\ getRes = NoGet
    /\ sst_id = 3 * MaxSSTs
    /\ manifest_queue = <<>>
    /\ InitEngine
    /\ InitParts
    /\ \E depth \in 1..3 :
       \E s0 \in SeqsUpTo(KeySets, MaxSSTs),
          s1 \in (IF depth >= 2 THEN DisjointSeqs ELSE {<<>>}),
          s2 \in (IF depth >= 3 THEN DisjointSeqs ELSE {<<>>}) :
            /\ levels = SubSeq(<<MakeLevel(0, s0), MakeLevel(1, s1),
                              MakeLevel(2, s2)>>, 1, depth)
            /\ files = SSTFiles(<<>>, levels, 1..(3 * MaxSSTs))
            \* Level::Load (lines 100-120): the largest id that was loaded
            /\ max_sst_id = SetMax(DOMAIN files \cup {0})

\* Manifest::InsertAndUpdate on the drawn Manifest: a flushed memtable becomes
\* the newest SST of level 0
InsertAndUpdate(S) ==
    /\ sst_id = 3 * MaxSSTs
    /\ LET sst == [id |-> sst_id + 1, data |-> Tab(S, sst_id + 1)]
           r   == ManifestInsertAndUpdate(
                      [levels |-> levels, max_sst_id |-> max_sst_id], sst)
       IN  /\ manifest_queue' = Append(manifest_queue, r.this)
           /\ levels' = r.res.levels
           /\ max_sst_id' = r.res.max_sst_id
           /\ files' = SSTFiles(files, r.res.levels, {sst.id})
    /\ sst_id' = sst_id + 1
    /\ UNCHANGED <<raftVars, memtable, inmemtables, flushing, putPc, nput,
                   completed, getPc, getRes, auxVars>>

\* Manifest::SizeTieredCompaction(level, id) on a level of the drawn Manifest
\* that holds SSTs
CompactOne(level) ==
    /\ sst_id = 3 * MaxSSTs
    /\ level < Len(levels)
    /\ levels[level + 1] # <<>>
    /\ levels' = CompactLevel(levels, level, sst_id + 1)
    /\ sst_id' = sst_id + 1
    /\ max_sst_id' = Max(max_sst_id, sst_id + 1)
    /\ files' = SSTFiles(files, levels', {sst_id + 1})
    /\ UNCHANGED <<raftVars, memtable, inmemtables, flushing, putPc, nput,
                   completed, getPc, getRes, manifest_queue, auxVars>>

NextCompaction ==
    \/ \E S \in KeySets : InsertAndUpdate(S)
    \/ \E level \in 0..4 : CompactOne(level)

SpecCompaction == InitCompaction /\ [][NextCompaction]_vars

\* DB::ToSST, lines 154-157, on a drawn Manifest of one or two levels:
\* InsertAndUpdate, then SizeTieredCompaction(level, ++sst_id_) on a level of
\* the Manifest it returned, before that Manifest is published
CompactReturned(level) ==
    /\ sst_id = 3 * MaxSSTs + 1
    /\ manifest_queue # <<>>
    /\ level < Len(levels)
    /\ levels[level + 1] # <<>>
    /\ levels' = CompactLevel(levels, level, sst_id + 1)
    /\ sst_id' = sst_id + 1
    /\ max_sst_id' = Max(max_sst_id, sst_id + 1)
    /\ files' = SSTFiles(files, levels', {sst_id + 1})
    /\ UNCHANGED <<raftVars, memtable, inmemtables, flushing, putPc, nput,
                   completed, getPc, getRes, manifest_queue, auxVars>>

NextCoW ==
    \/ \E S \in KeySets : InsertAndUpdate(S)
    \/ \E level \in 0..4 : CompactReturned(level)

InitCoW == InitCompaction /\ Len(levels) <= 2

SpecCoW == InitCoW /\ [][NextCoW]_vars

\* a step that is the compaction of the given level: the level held SSTs and
\* holds none after it
CompactedLevel(level) ==
    /\ level < Len(levels)
    /\ levels[level + 1] # <<>>
    /\ levels'[level + 1] = <<>>

Compacted == \E level \in 0..4 : CompactedLevel(level)

\* what the claim expects of the compaction of a level: the level below it,
\* split into the SSTs entirely below the source range, the overlapping ones
\* and the SSTs entirely above, and the merged data with the newest value of
\* every key (the source level newest first, then the overlapping SSTs)
SourceMin(level) ==
    SetMin({SSTKey(levels[level + 1][i]) : i \in 1..Len(levels[level + 1])})

SourceMax(level) ==
    SetMax({SSTEndKey(levels[level + 1][i]) : i \in 1..Len(levels[level + 1])})

NextLevel(level) ==
    IF level + 2 <= Len(levels) THEN levels[level + 2] ELSE <<>>

Below(level) ==
    SelectSeq(NextLevel(level), LAMBDA t : SSTEndKey(t) < SourceMin(level))

Above(level) ==
    SelectSeq(NextLevel(level), LAMBDA t : SSTKey(t) > SourceMax(level))

Overlapping(level) ==
    SelectSeq(NextLevel(level),
              LAMBDA t : ~(SSTEndKey(t) < SourceMin(level)) /\
                         ~(SSTKey(t) > SourceMax(level)))

NewestValue(level, k) ==
    FirstHit(Reverse([i \in 1..Len(levels[level + 1]) |-> levels[level + 1][i].data])
             \o [i \in 1..Len(Overlapping(level)) |-> Overlapping(level)[i].data],
             k)

\* an SST below level 0 that a compaction of this run has written
Written(level, i) ==
    /\ level + 1 \in 2..Len(levels)
    /\ i \in 1..Len(levels[level + 1])
    /\ levels[level + 1][i].id > 3 * MaxSSTs

InitLive == \E cl \in {{1}, {1, 2, 3}} : InitRaft(cl)

SpecLive == InitLive /\ [][NextLive]_vars /\ FairLive

\* The engine alone: one writer, one reader, the flush thread
NextDB ==
    \/ \E k \in DBKeys : DBPutInsert(k)
    \/ DBPutReturn
    \/ \E k \in DBKeys : DBGetMem(k)
    \/ DBGetManifest
    \/ FlushTake
    \/ ToSST

SpecDB == Init /\ [][NextDB]_vars

\* --------------------------------- the engine, callers and destructor
\* DB::Put, line 94: memtable_->Put(key, value), atomic under the skip
\* list's spin lock
PutStore(w, k) ==
    /\ worker # "crashed"
    /\ dtor = "alive"
    /\ wpc[w].pc = "idle"
    /\ nput < MaxDBPuts
    /\ nput' = nput + 1
    /\ memtable' = [memtable EXCEPT ![k] = nput + 1]
    /\ wpc' = [wpc EXCEPT ![w] = [pc |-> "stored", key |-> k, value |-> nput + 1]]
    /\ UNCHANGED <<raftVars, inmemtables, flushing, levels, sst_id, putPc,
                   completed, getPc, getRes, manifestVars, dtor,
                   to_sst_stop_flag, worker, saved, partVars>>

\* DB::Put, line 95: the size test, taken without a lock; the caller goes on
\* to the rotation or returns
PutCheck(w) ==
    /\ worker # "crashed"
    /\ wpc[w].pc = "stored"
    /\ IF BinarySize(memtable) > MemtableMaxSize
       THEN /\ wpc' = [wpc EXCEPT ![w].pc = "rotate"]
            /\ UNCHANGED completed
       ELSE /\ wpc' = [wpc EXCEPT ![w] = IdleWriter]
            /\ completed' = [completed EXCEPT ![wpc[w].key] = Max(@, wpc[w].value)]
    /\ UNCHANGED <<raftVars, memtable, inmemtables, flushing, levels, sst_id,
                   putPc, nput, getPc, getRes, manifestVars, dtor,
                   to_sst_stop_flag, worker, saved, partVars>>

\* inmemtables_.emplace_back(m) under memtable_lock_ (lines 96-97, 55-57)
\* while ToSSTLoop runs inmemtables_.erase(begin()) under to_sst_mutex_
\* (lines 134-135): the two locks differ, the vector is written by both at
\* once.  Both take effect, or the erase stores its stale end and the pushed
\* table is gone, or the erase destroys the pushed slot and the front stays
RacedQueues(m) ==
    {Append(Tail(inmemtables), m), Tail(inmemtables), inmemtables}

\* DB::Put, lines 96-101: the rotation of whatever memtable_ is now, alone or
\* at the same time as the flush thread's erase
PutRotate(w, race) ==
    /\ worker # "crashed"
    /\ wpc[w].pc = "rotate"
    /\ IF race
       THEN /\ worker = "running" /\ flushing = <<>> /\ inmemtables # <<>>
            /\ flushing' = <<Head(inmemtables)>>
            /\ inmemtables' \in RacedQueues(memtable)
       ELSE /\ inmemtables' = Append(inmemtables, memtable)
            /\ UNCHANGED flushing
    /\ memtable' = EmptyTable
    /\ wpc' = [wpc EXCEPT ![w] = IdleWriter]
    /\ completed' = [completed EXCEPT ![wpc[w].key] = Max(@, wpc[w].value)]
    /\ UNCHANGED <<raftVars, levels, sst_id, putPc, nput, getPc, getRes,
                   manifestVars, dtor, to_sst_stop_flag, worker, saved, partVars>>

\* DB::~DB, lines 54-59, once every Put has returned: the active memtable is
\* queued if it holds anything
DtorPush(race) ==
    /\ worker # "crashed"
    /\ dtor = "alive"
    /\ \A w \in Writers : wpc[w].pc = "idle"
    /\ dtor' = "pushed"
    /\ IF BinarySize(memtable) > 0
       THEN IF race
            THEN /\ worker = "running" /\ flushing = <<>> /\ inmemtables # <<>>
                 /\ flushing' = <<Head(inmemtables)>>
                 /\ inmemtables' \in RacedQueues(memtable)
            ELSE /\ inmemtables' = Append(inmemtables, memtable)
                 /\ UNCHANGED flushing
       ELSE /\ ~race
            /\ UNCHANGED <<inmemtables, flushing>>
    /\ UNCHANGED <<raftVars, memtable, levels, sst_id, putPc, nput, completed,
                   getPc, getRes, manifestVars, wpc, to_sst_stop_flag, worker,
                   saved, partVars>>

\* DB::~DB, lines 60-64: the stop flag
DtorStop ==
    /\ worker # "crashed"
    /\ dtor = "pushed"
    /\ to_sst_stop_flag' = TRUE
    /\ dtor' = "joining"
    /\ UNCHANGED <<raftVars, memtable, inmemtables, flushing, levels, sst_id,
                   putPc, nput, completed, getPc, getRes, manifestVars, wpc,
                   worker, saved, partVars>>

\* DB::ToSSTLoop, lines 129-131: stopped and nothing queued
WorkerExit ==
    /\ worker = "running"
    /\ flushing = <<>>
    /\ to_sst_stop_flag
    /\ inmemtables = <<>>
    /\ worker' = "exited"
    /\ UNCHANGED <<raftVars, memtable, inmemtables, flushing, levels, sst_id,
                   putPc, nput, completed, getPc, getRes, manifestVars, wpc,
                   dtor, to_sst_stop_flag, saved, partVars>>

\* DB::ToSST handed an empty memtable: the SST constructor (sst.hpp 880-895)
\* reads (*memtable.begin()).key, and begin() of an empty skip list is
\* Iterator(nullptr); the flush thread faults
ToSSTEmpty ==
    /\ worker = "running"
    /\ flushing = <<EmptyTable>>
    /\ worker' = "crashed"
    /\ UNCHANGED <<raftVars, memtable, inmemtables, flushing, levels, sst_id,
                   putPc, nput, completed, getPc, getRes, manifestVars, wpc,
                   dtor, to_sst_stop_flag, saved, partVars>>

\* DB::~DB, lines 65-71: the join, then Save of manifest_queue_.back()
DtorSave ==
    /\ dtor = "joining"
    /\ worker = "exited"
    /\ saved' = <<levels>>
    /\ dtor' = "done"
    /\ UNCHANGED <<raftVars, memtable, inmemtables, flushing, levels, sst_id,
                   putPc, nput, completed, getPc, getRes, manifestVars, wpc,
                   to_sst_stop_flag, worker, partVars>>

\* the flush thread and the destructor
NextWorker ==
    \/ worker = "running" /\ FlushTake
    \/ worker = "running" /\ flushing # <<EmptyTable>> /\ ToSST
    \/ WorkerExit
    \/ \E race \in BOOLEAN : DtorPush(race)
    \/ DtorStop
    \/ DtorSave

\* the engine with two callers of Put
NextEngine ==
    \/ \E w \in Writers, k \in DBKeys : PutStore(w, k)
    \/ \E w \in Writers : PutCheck(w)
    \/ \E w \in Writers, race \in BOOLEAN : PutRotate(w, race)
    \/ ToSSTEmpty
    \/ NextWorker

SpecEngine == Init /\ [][NextEngine]_vars

\* DB::Put, line 94, split in two.  First memtable_-> is evaluated: the
\* caller holds the address of the MemTable that is active now, under no lock.
\* age counts the rotations since: 0 is the active MemTable, a >= 1 the a-th
\* last one that was rotated out
PutLoad(w, k) ==
    /\ worker # "crashed"
    /\ dtor = "alive"
    /\ wpc[w].pc = "idle"
    /\ nput + Cardinality({x \in Writers : wpc[x].pc = "loaded"}) < MaxDBPuts
    /\ wpc' = [wpc EXCEPT ![w] = [pc |-> "loaded", key |-> k, value |-> 0,
                                  age |-> 0]]
    /\ UNCHANGED <<raftVars, memtable, inmemtables, flushing, levels, sst_id,
                   putPc, nput, completed, getPc, getRes, manifestVars, dtor,
                   to_sst_stop_flag, worker, saved, partVars>>

\* DB::Put, line 94: then MemTable::Put runs on the table the caller holds,
\* which is still the active one, or waits in inmemtables_, or is the one the
\* flush thread is building an SST from (the SST constructor iterates the skip
\* list while the Put links its node: the SST has the entry or not), or was
\* flushed before (the entry reaches no structure)
PutStoreLate(w) ==
    /\ worker # "crashed"
    /\ wpc[w].pc = "loaded"
    /\ nput' = nput + 1
    /\ wpc' = [wpc EXCEPT ![w] = [pc |-> "stored", key |-> wpc[w].key,
                                  value |-> nput + 1]]
    /\ LET k == wpc[w].key
           a == wpc[w].age
           n == Len(inmemtables)
       IN  IF a = 0
           THEN /\ memtable' = [memtable EXCEPT ![k] = nput + 1]
                /\ UNCHANGED <<inmemtables, flushing>>
           ELSE IF a <= n
           THEN /\ inmemtables' =
                      SubSeq(inmemtables, 1, n - a) \o
                      <<[inmemtables[n - a + 1] EXCEPT ![k] = nput + 1]>> \o
                      SubSeq(inmemtables, n - a + 2, n)
                /\ UNCHANGED <<memtable, flushing>>
           ELSE IF a = n + 1 /\ flushing # <<>>
           THEN /\ flushing' \in {flushing,
                                  <<[flushing[1] EXCEPT ![k] = nput + 1]>>}
                /\ UNCHANGED <<memtable, inmemtables>>
           ELSE UNCHANGED <<memtable, inmemtables, flushing>>
    /\ UNCHANGED <<raftVars, levels, sst_id, putPc, completed, getPc, getRes,
                   manifestVars, dtor, to_sst_stop_flag, worker, saved, partVars>>

\* DB::Put, lines 96-101: the rotation; a caller that evaluated memtable_->
\* before it now holds a table that is one rotation older
PutRotateAged(w) ==
    /\ worker # "crashed"
    /\ wpc[w].pc = "rotate"
    /\ inmemtables' = Append(inmemtables, memtable)
    /\ memtable' = EmptyTable
    /\ wpc' = [x \in Writers |->
                  IF x = w THEN IdleWriter
                  ELSE IF wpc[x].pc = "loaded"
                       THEN [pc |-> "loaded", key |-> wpc[x].key, value |-> 0,
                             age |-> wpc[x].age + 1]
                       ELSE wpc[x]]
    /\ completed' = [completed EXCEPT ![wpc[w].key] = Max(@, wpc[w].value)]
    /\ UNCHANGED <<raftVars, flushing, levels, sst_id, putPc, nput, getPc,
                   getRes, manifestVars, dtor, to_sst_stop_flag, worker, saved,
                   partVars>>

\* the engine with two callers of Put whose evaluation of memtable_ and
\* MemTable::Put are separate steps
NextStalePut ==
    \/ \E w \in Writers, k \in DBKeys : PutLoad(w, k)
    \/ \E w \in Writers : PutStoreLate(w)
    \/ \E w \in Writers : PutCheck(w)
    \/ \E w \in Writers : PutRotateAged(w)
    \/ worker = "running" /\ FlushTake
    \/ worker = "running" /\ flushing # <<EmptyTable>> /\ ToSST
    \/ ToSSTEmpty

SpecStalePut == Init /\ [][NextStalePut]_vars

\* DB::ToSSTLoop, lines 124-128: under to_sst_mutex_ the wait evaluates its
\* predicate, to_sst_stop_flag_ || !inmemtables_.empty(), and finds it false
WaitCheck ==
    /\ worker = "running"
    /\ flushing = <<>>
    /\ ~to_sst_stop_flag
    /\ inmemtables = <<>>
    /\ worker' = "checked"
    /\ UNCHANGED <<raftVars, memtable, inmemtables, flushing, levels, sst_id,
                   putPc, nput, completed, getPc, getRes, manifestVars, wpc,
                   dtor, to_sst_stop_flag, saved, partVars>>

\* then condition_variable::wait releases to_sst_mutex_ and blocks the thread
WaitBlock ==
    /\ worker = "checked"
    /\ worker' = "waiting"
    /\ UNCHANGED <<raftVars, memtable, inmemtables, flushing, levels, sst_id,
                   putPc, nput, completed, getPc, getRes, manifestVars, wpc,
                   dtor, to_sst_stop_flag, saved, partVars>>

\* a blocked wait may return with no notification; the predicate is then
\* evaluated again
SpuriousWake ==
    /\ worker = "waiting"
    /\ worker' = "running"
    /\ UNCHANGED <<raftVars, memtable, inmemtables, flushing, levels, sst_id,
                   putPc, nput, completed, getPc, getRes, manifestVars, wpc,
                   dtor, to_sst_stop_flag, saved, partVars>>

\* DB::Put, lines 96-101: the rotation under memtable_lock_ and
\* to_sst_cv_.notify_one(), which wakes the flush thread if it is blocked in
\* the wait and does nothing otherwise; to_sst_mutex_ is not taken
PutRotateNotify(w) ==
    /\ worker # "crashed"
    /\ wpc[w].pc = "rotate"
    /\ inmemtables' = Append(inmemtables, memtable)
    /\ memtable' = EmptyTable
    /\ wpc' = [wpc EXCEPT ![w] = IdleWriter]
    /\ completed' = [completed EXCEPT ![wpc[w].key] = Max(@, wpc[w].value)]
    /\ worker' = IF worker = "waiting" THEN "running" ELSE worker
    /\ UNCHANGED <<raftVars, flushing, levels, sst_id, putPc, nput, getPc,
                   getRes, manifestVars, dtor, to_sst_stop_flag, saved, partVars>>

\* the engine with one caller of Put and the flush thread's wait, no
\* destructor
NextWakeup ==
    \/ \E k \in DBKeys : nput < WakeupPuts /\ PutStore(1, k)
    \/ PutCheck(1)
    \/ PutRotateNotify(1)
    \/ WaitCheck
    \/ WaitBlock
    \/ SpuriousWake
    \/ worker = "running" /\ FlushTake
    \/ worker = "running" /\ ToSST

\* every thread that can take a step takes it in the end; a Put is never
\* owed by the client and a spurious wake-up never by the library
FairWakeup ==
    /\ WF_vars(PutCheck(1))
    /\ WF_vars(PutRotateNotify(1))
    /\ WF_vars(WaitCheck)
    /\ WF_vars(WaitBlock)
    /\ WF_vars(worker = "running" /\ FlushTake)
    /\ WF_vars(worker = "running" /\ ToSST)

SpecWakeup == Init /\ [][NextWakeup]_vars /\ FairWakeup

\* the engine with one caller of Put
NextShutdown ==
    \/ \E k \in DBKeys : PutStore(1, k)
    \/ PutCheck(1)
    \/ \E race \in BOOLEAN : PutRotate(1, race)
    \/ NextWorker

SpecShutdown == Init /\ [][NextShutdown]_vars

\* --------------------------------------------- a MemTable on its own
\* skip_list.Put(k, v), RandLevel() returning new_level
MemPut(k, v, new_level, g) ==
    /\ ~skip.fault
    /\ Len(skip.nodes) < MaxNodes
    /\ skip' = SkipPut(skip, k, v, new_level, g)
    /\ expected' = [expected EXCEPT ![k] = v]
    /\ UNCHANGED <<raftVars, memtable, inmemtables, flushing, levels, sst_id,
                   putPc, nput, completed, getPc, getRes, manifestVars,
                   engineVars, cache, appendRsp, applied>>

\* skip_list.Delete(k)
MemDelete(k, g) ==
    /\ ~skip.fault
    /\ skip' = SkipDelete(skip, k, g)
    /\ expected' = [expected EXCEPT ![k] = 0]
    /\ UNCHANGED <<raftVars, memtable, inmemtables, flushing, levels, sst_id,
                   putPc, nput, completed, getPc, getRes, manifestVars,
                   engineVars, cache, appendRsp, applied>>

NextSkip ==
    \/ \E k \in DBKeys, v \in 1..2, new_level \in 1..MaxLevel, g \in BOOLEAN :
           MemPut(k, v, new_level, g)
    \/ \E k \in DBKeys, g \in BOOLEAN : MemDelete(k, g)

SpecSkip == Init /\ [][NextSkip]_vars

\* --------------------------------------------- a BlockCache on its own
\* BlockCache::Get without the MoveToFront of line 136
CacheGet_NoMove(sst, offset) ==
    LET key == MakeKey(sst, offset)
        i   == CacheFind(cache, key)
        c   == [cache EXCEPT !.call = [op |-> "get", key |-> key],
                             !.evicted = <<>>]
    IN  /\ cache.access_counter < MaxAccess
        /\ cache' = IF i # 0
                    THEN [c EXCEPT !.access_counter = @ + 1,
                                   !.lru_list[i].access_time =
                                       cache.access_counter + 1,
                                   !.ret = "hit"]
                    ELSE [c EXCEPT !.ret = "miss"]
        /\ UNCHANGED <<raftVars, memtable, inmemtables, flushing, levels,
                       sst_id, putPc, nput, completed, getPc, getRes,
                       manifestVars, engineVars, skip, expected, appendRsp,
                       applied>>

\* BlockCache::Get
CacheGet(sst, offset) ==
    LET key == MakeKey(sst, offset)
        i   == CacheFind(cache, key)
        c   == [cache EXCEPT !.call = [op |-> "get", key |-> key],
                             !.evicted = <<>>]
    IN  /\ cache.access_counter < MaxAccess
        /\ cache' = IF i # 0
                    THEN [c EXCEPT !.access_counter = @ + 1,
                                   !.lru_list = MoveToFront(@, i,
                                       cache.access_counter + 1),
                                   !.ret = "hit"]
                    ELSE [c EXCEPT !.ret = "miss"]
        /\ UNCHANGED <<raftVars, memtable, inmemtables, flushing, levels,
                       sst_id, putPc, nput, completed, getPc, getRes,
                       manifestVars, engineVars, skip, expected, appendRsp,
                       applied>>

\* BlockCache::Put of a block of data_size bytes
CachePut(sst, offset, data_size) ==
    LET key == MakeKey(sst, offset)
        i   == CacheFind(cache, key)
        c   == [cache EXCEPT !.call = [op |-> "put", key |-> key],
                             !.evicted = <<>>]
        e   == EvictIfNeeded(c, data_size)
        t   == cache.access_counter + 1
    IN  /\ cache.access_counter < MaxAccess
        /\ cache' =
               IF \/ data_size = 0
                  \/ data_size > MaxBlockSize
                  \/ 2 * data_size < MinBlockSize
               THEN [c EXCEPT !.ret = "false"]
               ELSE IF i # 0
               THEN [c EXCEPT !.lru_list = MoveToFront(
                                   [@ EXCEPT ![i].size = data_size], i, t),
                              !.access_counter = t,
                              !.ret = "true"]
               ELSE [e EXCEPT !.lru_list = <<[key |-> key, size |-> data_size,
                                              access_time |-> t]>> \o @,
                              !.access_counter = t,
                              !.current_size = (@ + data_size) % SizeT,
                              !.current_count = @ + 1,
                              !.ret = "true"]
        /\ UNCHANGED <<raftVars, memtable, inmemtables, flushing, levels,
                       sst_id, putPc, nput, completed, getPc, getRes,
                       manifestVars, engineVars, skip, expected, appendRsp,
                       applied>>

\* BlockCache::Remove
CacheRemove(sst, offset) ==
    LET key == MakeKey(sst, offset)
        i   == CacheFind(cache, key)
        c   == [cache EXCEPT !.call = [op |-> "remove", key |-> key],
                             !.evicted = <<>>]
    IN  /\ cache' = IF i # 0
                    THEN [RemoveBlock(c, i) EXCEPT !.ret = "true"]
                    ELSE [c EXCEPT !.ret = "false"]
        /\ UNCHANGED <<raftVars, memtable, inmemtables, flushing, levels,
                       sst_id, putPc, nput, completed, getPc, getRes,
                       manifestVars, engineVars, skip, expected, appendRsp,
                       applied>>

\* BlockCache::Clear
CacheClear ==
    /\ cache' = [cache EXCEPT !.lru_list = <<>>, !.current_size = 0,
                              !.current_count = 0, !.evicted = <<>>,
                              !.call = [op |-> "clear", key |-> 0],
                              !.ret = "none"]
    /\ UNCHANGED <<raftVars, memtable, inmemtables, flushing, levels,
                   sst_id, putPc, nput, completed, getPc, getRes,
                   manifestVars, engineVars, skip, expected, appendRsp,
                   applied>>

\* BlockCache(config) with max_block_count 0 (the default) or 2
InitCache ==
    /\ InitPods({1, 2, 3})
    /\ InitDB
    /\ skip = NewSkipList
    /\ expected = [k \in DBKeys |-> 0]
    /\ \E count \in {0, 2} : cache = NewBlockCache(count)
    /\ appendRsp = NoAppend
    /\ applied = [n \in AllNodes |-> <<>>]

NextCache ==
    \/ \E sst \in 0..1, offset \in 0..2 : CacheGet(sst, offset)
    \/ \E sst \in 0..1, offset \in 0..2, data_size \in 0..(MaxBlockSize + 1) :
           CachePut(sst, offset, data_size)
    \/ \E sst \in 0..1, offset \in 0..2 : CacheRemove(sst, offset)
    \/ CacheClear

SpecCache == InitCache /\ [][NextCache]_vars

\* ------------------------------------------------------------- claims
\* C3: DB::Get(k) returns the value of the most recent completed Put(k, .),
\* or of a later Put, in every interleaving with rotation and the flush worker
C3_GetSeesCompletedPut ==
    getRes.value >= getRes.floor

\* C1: election safety: in every reachable state at most one node has role
\* Leader for any given term
C1_ElectionSafety ==
    \A a, b \in cluster :
        (status[a] = "Leader" /\ status[b] = "Leader" /\ term[a] = term[b]) => a = b

\* C9: a node casts at most one vote per term; a candidate's vote for itself
\* counts as its vote for the term it campaigns in
C9_OneVotePerTerm ==
    \A n \in cluster : votesCast[n].count <= 1

\* C4: on every node's RaftLog, start_index <= last_applied <= commited <= index,
\* after any sequence of put, put_entry, reset, update_commit and applier steps
C4_LogCounters ==
    \A n \in cluster :
        /\ rlog[n].start_index <= rlog[n].last_append
        /\ rlog[n].last_append <= rlog[n].commited
        /\ rlog[n].commited <= rlog[n].index

\* C2: once Put(k, v) has returned success, a linearizable Get(k) served by
\* the current leader finds the key and returns v or a later written value
\* (the p-th Put writes the value p)
C2_ReadYourWrite ==
    \A n \in cluster, p \in 1..MaxPuts :
        (status[n] = "Leader" /\ puts[p].state = "ok") =>
            /\ PodGet(n, puts[p].key, TRUE).code = 0
            /\ PodGet(n, puts[p].key, TRUE).value >= p

\* C8: when the elected leader's heartbeats have reached every other node, a
\* Put on a node that is not leader is answered with code -2 and the leader's
\* address (and the redirect branch appends nothing)
C8_FollowerRedirect ==
    \A l \in cluster :
        (status[l] = "Leader" /\ hbDelivered[l] = Followers(l)) =>
            \A n \in Followers(l) :
                status[n] # "Leader" =>
                    RedirectRsps(n) = {[code |-> -2, addr |-> l]}

\* C10: a RequestVote whose term is lower than the voter's, or equal with a
\* shorter log than the voter's, is answered with code -1 and leaves the
\* voter's term, role and voted flag unchanged
C10_VoteRejects ==
    [][\A n \in cluster :
          (/\ status[n] = "Candidate"
           /\ votePos[n] \in 1..Len(FollowerSeq(n))
           /\ votePos'[n] = votePos[n] + 1
           /\ voteRsp'[n].ok) =>
             LET f == FollowerSeq(n)[votePos[n]]
             IN  (\/ term[n] < term[f]
                  \/ term[n] = term[f] /\ rlog[n].index < rlog[f].index) =>
                     /\ voteRsp'[n].code = -1
                     /\ term'[f] = term[f]
                     /\ status'[f] = status[f]
                     /\ voted'[f] = voted[f]]_vars

\* a same-term request with the shorter log was answered -1 by a voter that
\* had not voted yet
C10_Witness ==
    \E n \in cluster :
        /\ voteRsp[n].ok /\ voteRsp[n].code = -1
        /\ voteRsp[n].to \in cluster
        /\ voteRsp[n].term = term[voteRsp[n].to]
        /\ voteRsp[n].index < rlog[voteRsp[n].to].index
        /\ ~voted[voteRsp[n].to]

\* C5: whenever a replicator advances the leader's commit index to N, the
\* leader and the peers whose next_index is at least N are a strict majority
\* of the cluster and hold index N
C5_CommitMajority ==
    [][\A l \in cluster :
          (/\ status[l] = "Leader" /\ status'[l] = "Leader"
           /\ nextindex'[l] # nextindex[l]
           /\ rlog'[l].commited > rlog[l].commited) =>
             LET N == rlog'[l].commited
                 H == {l} \cup {f \in Followers(l) : nextindex'[l][f] >= N}
             IN  /\ 2 * Cardinality(H) > Cardinality(cluster)
                 /\ \A h \in H : rlog'[h].index >= N]_vars

\* C6: in a three-node cluster with a stable leader and reachable followers
\* every Put that was appended eventually returns success, the last one too
C6_PutReturns ==
    (Cardinality(cluster) = 3) =>
        \A p \in 1..MaxPuts :
            [](puts[p].state = "waiting" => <>(puts[p].state = "ok"))

\* C7: in a single-node deployment put(k, 1), put(k, 2), ... each return
\* success, and from then on, across close and reopen, get(k) returns the
\* last value put
C7_SingleNodeDurability ==
    (cluster = {1}) =>
        <>[](/\ \A p \in 1..MaxPuts : puts[p].state = "ok"
             /\ PodGet(1, "k", FALSE).value = MaxPuts)

\* C12: three nodes and a stable leader: after a Put(k, v) has returned
\* success, every node's last_applied eventually reaches the entry's index
\* and Get(k) on each of the three nodes eventually returns v (or k has been
\* put again since).  A returned Put stays returned, last_applied never
\* decreases and an applied value stays until the key is put again, so the
\* claim is that from some point on every returned Put is applied everywhere.
C12_ReplicationConvergence ==
    <>[](\A p \in 1..MaxPuts : \A n \in {1, 2, 3} :
           puts[p].state = "ok" =>
              /\ rlog[n].last_append >= puts[p].idx
              /\ \/ PodGet(n, puts[p].key, FALSE).value = p
                 \/ Overwritten(p))

C14_FullRingRefuses ==
    [][\A p \in 1..MaxPuts :
          (/\ puts[p].state = "idle" /\ puts'[p].state # "idle"
           /\ status[puts'[p].node] = "Leader"
           /\ RingFull(rlog[puts'[p].node]))
          => /\ puts'[p].state = "answered" /\ puts'[p].code = -1
             /\ rlog'[puts'[p].node] = rlog[puts'[p].node]]_vars

C14_Witness ==
    \E p \in 1..MaxPuts : RefusedFull(p, 1) /\ rlog[1].index = RingBufferSize - 1

\* C15: after a put has failed because the ring was at capacity, once the
\* applier has applied the committed entries (here: every entry of the log is
\* committed and applied) a retried put succeeds
C15_RetryAfterApply ==
    \A n \in cluster : \A q \in 1..MaxPuts :
        (/\ RefusedFull(q, n)
         /\ rlog[n].commited = rlog[n].index
         /\ rlog[n].last_append = rlog[n].commited)
        => RaftLogPut(rlog[n], "k", q, term[n]).ok

\* C16: the engine.put calls of a node's applier are that node's log entries
\* at the indices start_index+1 .. last_applied, in increasing order, each
\* exactly once, with the key and value the log holds at that index: every
\* step of last_applied is to the next index, that index is in the log, and
\* the engine receives the entry stored there
C16_AppliedIsLog ==
    [][\A n \in cluster :
          rlog'[n].last_append # rlog[n].last_append =>
             LET i == rlog[n].last_append + 1
             IN  /\ rlog'[n].last_append = i
                 /\ i > rlog[n].start_index /\ i <= rlog[n].index
                 /\ db'[n] = [db[n] EXCEPT ![LogAt(rlog[n], i).key] =
                                               LogAt(rlog[n], i).value]]_vars

C20_AtMostFiveLevels == Len(levels) <= 5

\* C21: copy on write.  Manifest::InsertAndUpdate, and a compaction then run
\* on the Manifest it returned, leave the per-level SST lists of every older
\* Manifest as they were, and a reader that holds an older Manifest gets the
\* same Get result for every key before and after the step
C21_CopyOnWrite ==
    [][/\ \A i \in 1..Len(manifest_queue) :
            /\ manifest_queue'[i].levels = manifest_queue[i].levels
            /\ \A k \in DBKeys :
                  ManifestGet(Mapped(files', manifest_queue'[i].levels), k) =
                  ManifestGet(Mapped(files, manifest_queue[i].levels), k)
       /\ Len(manifest_queue') > Len(manifest_queue) =>
            /\ manifest_queue'[Len(manifest_queue')].levels = levels
            /\ \A k \in DBKeys :
                  ManifestGet(Mapped(files', manifest_queue'[Len(manifest_queue')].levels), k) =
                  ManifestGet(Mapped(files, levels), k)]_vars

\* an SST was inserted and the returned Manifest compacted at level 0: the
\* older Manifest still lists its level-0 SSTs, the new one lists none
C21_Witness ==
    /\ Len(manifest_queue) = 1
    /\ sst_id = 3 * MaxSSTs + 2
    /\ manifest_queue[1].levels[1] # <<>>
    /\ levels[1] = <<>>
    /\ \E k \in DBKeys :
          ManifestGet(Mapped(files, manifest_queue[1].levels), k) # ManifestGet(levels, k)

\* C22: the max_sst_id of every Manifest, the one InsertAndUpdate returned
\* included, is at least the id of every SST the Manifest references
C22_MaxSstIdCoversIds ==
    /\ \A l \in DOMAIN levels : \A j \in DOMAIN levels[l] :
          levels[l][j].id <= max_sst_id
    /\ \A i \in DOMAIN manifest_queue :
          \A l \in DOMAIN manifest_queue[i].levels :
             \A j \in DOMAIN manifest_queue[i].levels[l] :
                manifest_queue[i].levels[l][j].id <= manifest_queue[i].max_sst_id

\* C23: no empty MemTable is ever on the immutable queue and none is ever
\* handed to the SST constructor, under any interleaving of the Put callers,
\* the rotation, the flush thread and the destructor
C23_NoEmptyMemTableFlushed ==
    /\ \A i \in DOMAIN inmemtables : inmemtables[i] # EmptyTable
    /\ flushing # <<EmptyTable>>

\* C24: when the destructor has completed, the immutable queue is empty,
\* every key put before the destruction reads its last value through the last
\* published Manifest, and that Manifest is the one that was saved
C24_ShutdownDrainsAndSaves ==
    dtor = "done" =>
        /\ inmemtables = <<>>
        /\ \A k \in DBKeys :
              completed[k] # 0 => ManifestGet(levels, k) = completed[k]
        /\ saved = <<levels>>

\* C25: after any sequence of put and delete on a MemTable, get(k) returns
\* the value of the last put(k, .) not followed by delete(k) and absent
\* otherwise, len() is the number of present keys and byte_size() the sum of
\* |key| + |value| over them
C25_MemTableIsAMap ==
    /\ ~skip.fault
    /\ \A k \in DBKeys, g \in BOOLEAN : SkipGet(skip, k, g) = expected[k]
    /\ skip.size = Cardinality({k \in DBKeys : expected[k] # 0})
    /\ LET bytes(k) == IF expected[k] # 0 THEN 1 + expected[k] ELSE 0
       IN  skip.binary_size = bytes("a") + bytes("b") + bytes("c")

\* C26: after every BlockCache put that returns true, the current size is at
\* most max_capacity and, when max_block_count > 0, the block count is at
\* most max_block_count, in any sequence of get, put, remove and clear
C26_PutKeepsCacheBounded ==
    (cache.call.op = "put" /\ cache.ret = "true") =>
        /\ cache.current_size <= MaxCapacity
        /\ cache.max_block_count > 0 =>
               cache.current_count <= cache.max_block_count

\* C27: eviction is strict LRU: a put that evicts removes the blocks from the
\* tail of the list, tail first, and every block it removes was used (by a
\* get hit or a put) before every block it keeps; a get hit makes the block
\* the most recently used
C27_StrictLRU ==
    [][/\ (cache'.call.op = "put" /\ cache'.evicted # <<>>) =>
            LET n    == Len(cache.lru_list)
                m    == Len(cache'.evicted)
                kept == SubSeq(cache.lru_list, 1, n - m)
            IN  /\ m <= n
                /\ \A j \in 1..m :
                       cache'.evicted[j] = cache.lru_list[n + 1 - j].key
                /\ Tail(cache'.lru_list) = kept
                /\ \A j \in (n - m + 1)..n, k \in 1..(n - m) :
                       cache.lru_list[j].access_time
                           < cache.lru_list[k].access_time
       /\ (cache'.call.op = "get" /\ cache'.ret = "hit") =>
            /\ cache'.lru_list[1].key = cache'.call.key
            /\ \A k \in 2..Len(cache'.lru_list) :
                   cache'.lru_list[k].access_time
                       < cache'.lru_list[1].access_time
            /\ \A k \in 2..Len(cache'.lru_list) :
                   cache'.lru_list[1].access_time
                       > cache.lru_list[CacheFind(cache,
                             cache'.lru_list[k].key)].access_time]_vars

\* a put evicted two blocks
C27_Witness ==
    cache.call.op = "put" /\ Len(cache.evicted) >= 2

\* C28: commited and last_applied (last_append_) of a RaftLog never
\* decrease, across any sequence of put, put_entry, reset, update_commit and
\* applier steps
C28_CommitAndAppliedMonotonic ==
    [][\A n \in AllNodes :
          /\ rlog'[n].commited >= rlog[n].commited
          /\ rlog'[n].last_append >= rlog[n].last_append]_vars

\* a log that was committed, applied and then truncated by reset below its
\* commit index
C28_Witness ==
    /\ rlog[2].last_append > 0
    /\ rlog[2].index < rlog[2].last_append

\* C29: state machine safety: if two nodes have both applied log index i to
\* their engines, they applied the same (key, value) at it
C29_StateMachineSafety ==
    \A n, m \in cluster :
        \A a \in DOMAIN applied[n], b \in DOMAIN applied[m] :
            applied[n][a].index = applied[m][b].index =>
                /\ applied[n][a].key = applied[m][b].key
                /\ applied[n][a].value = applied[m][b].value

\* C30: the follower's Append handler returns 0 for a request with entries
\* exactly when it appended the single entry at index log.index + 1 (the
\* index grew by one); it returns -3 for a request of more than one entry
\* and leaves the log as it was; it returns -2 otherwise; it never appends
\* an entry whose index is not log.index + 1
C30_AppendCodes ==
    [][(appendRsp'.seq # appendRsp.seq /\ appendRsp'.req.entrys # <<>>) =>
         LET es       == appendRsp'.req.entrys
             code     == appendRsp'.code
             before   == rlog[2]
             after    == rlog'[2]
             appended == /\ Len(es) = 1
                         /\ after.index = before.index + 1
                         /\ es[1].index = after.index
                         /\ LogAt(after, after.index) =
                                [key |-> es[1].key, value |-> es[1].value,
                                 term |-> es[1].term]
         IN  /\ code = 0 <=> appended
             /\ Len(es) > 1 =>
                    /\ code = -3
                    /\ after.index = before.index
                    /\ after.data = before.data
             /\ (Len(es) = 1 /\ ~appended) => code = -2
             /\ after.index > before.index => appended]_vars

\* C31: a follower that holds uncommitted entries beyond its commit index
\* discards them: on a misaligned Append of one entry, with commited <
\* log.index and the leader's commit index in (commited, log.index], it
\* truncates its log to commited by reset (and appends the entry if it is
\* the next one after the truncation)
C31_MisalignedAppendTruncates ==
    [][LET es     == appendRsp'.req.entrys
           lc     == appendRsp'.req.commited_index
           before == rlog[2]
           after  == rlog'[2]
       IN  (/\ appendRsp'.seq # appendRsp.seq
            /\ Len(es) = 1
            /\ es[1].index # before.index + 1
            /\ before.commited < before.index
            /\ lc > before.commited /\ lc <= before.index) =>
               \/ after.index = before.commited
               \/ /\ es[1].index = before.commited + 1
                  /\ after.index = before.commited + 1]_vars

\* C32: a node's role changes only along Follower->Candidate,
\* Candidate->Leader, Candidate->Follower and Leader->Follower; a node becomes
\* Leader only from Candidate and only with tickets (its own included) of a
\* strict majority of the cluster; every ticket it counts is a vote one
\* distinct peer granted to a request of the candidate's current term, which
\* does not change while the candidate counts
C32_RoleTransitions ==
    [][\A n \in cluster :
        /\ status'[n] # status[n] =>
              <<status[n], status'[n]>> \in
                  {<<"Follower", "Candidate">>, <<"Candidate", "Leader">>,
                   <<"Candidate", "Follower">>, <<"Leader", "Follower">>}
        /\ (status'[n] = "Leader" /\ status[n] # "Leader") =>
              /\ status[n] = "Candidate"
              /\ votePos[n] = Len(FollowerSeq(n)) + 1
              /\ 2 * ticket_num[n] > Cardinality(cluster)
              /\ term'[n] = term[n]
        /\ (votePos[n] > 0 /\ ticket_num'[n] # ticket_num[n]) =>
              /\ ticket_num'[n] = ticket_num[n] + 1
              /\ ticket_num'[n] <= votePos[n] + 1
              /\ votePos'[n] = votePos[n] + 1
              /\ voteRsp'[n].ok /\ voteRsp'[n].code = 0
              /\ voteRsp'[n].to = FollowerSeq(n)[votePos[n]]
              /\ voteRsp'[n].term = term'[n]
              /\ votesCast'[voteRsp'[n].to].term = term'[n]
              /\ votesCast'[voteRsp'[n].to] # votesCast[voteRsp'[n].to]
        /\ (votePos[n] > 0 /\ votePos'[n] > 0 /\
            status[n] = "Candidate" /\ status'[n] = "Candidate") =>
              term'[n] = term[n]]_vars

\* C32: a node has become Leader with the tickets of two of three nodes while
\* another node, a Candidate before, is a Follower again
C32_Witness ==
    \E n, m \in cluster :
        /\ n # m
        /\ status[n] = "Leader" /\ ticket_num[n] = 2
        /\ status[m] = "Follower" /\ ticket_num[m] >= 1

\* C33: a Candidate that gets the response of a peer whose term is higher than
\* its own becomes Follower in the step that handles the response (and counts
\* no further vote for its stale term)
C33_StaleCandidateStepsDown ==
    [][\A n \in cluster :
        (/\ status[n] = "Candidate"
         /\ votePos[n] \in 1..Len(FollowerSeq(n))
         /\ votePos'[n] = votePos[n] + 1
         /\ voteRsp'[n].ok
         /\ term[FollowerSeq(n)[votePos[n]]] > term[n]) =>
            status'[n] = "Follower"]_vars

\* C34: the immutable queue is read and modified only under the MemTable
\* read-write lock, so no thread modifies it while another one does: no step
\* has the flush thread's dequeue (the front of the queue becomes the table
\* being flushed) together with the enqueue of a Put's rotation or of the
\* destructor
C34_QueueUnderMemtableLock ==
    [][LET dequeue == flushing = <<>> /\ flushing' # <<>>
           enqueue == \/ \E w \in Writers :
                            wpc[w].pc = "rotate" /\ wpc'[w].pc = "idle"
                      \/ /\ dtor = "alive" /\ dtor' = "pushed"
                         /\ BinarySize(memtable) > 0
       IN  ~(dequeue /\ enqueue)]_vars

\* the value of the latest returned Put of key k, or a later value of k, is
\* in the active MemTable, in a queued one, in the one being flushed or in an
\* SST of the published Manifest
Holds(k) ==
    \/ memtable[k] >= completed[k]
    \/ \E i \in DOMAIN inmemtables : inmemtables[i][k] >= completed[k]
    \/ \E i \in DOMAIN flushing : flushing[i][k] >= completed[k]
    \/ \E l \in DOMAIN levels : \E j \in DOMAIN levels[l] :
          levels[l][j].data[k] >= completed[k]

\* C35: no Put modifies a MemTable that is on the immutable queue (the queue
\* changes only by the rotation's append and the flush thread's dequeue), and
\* every Put that has returned is held by the active MemTable, a queued
\* MemTable or an SST of the published Manifest
C35_NoCompletedPutLost ==
    [][/\ \/ inmemtables' \in {inmemtables, Append(inmemtables, memtable)}
          \/ inmemtables # <<>> /\ inmemtables' = Tail(inmemtables)
       /\ \A k \in DBKeys : Holds(k)']_vars

\* C36: every SST the engine constructs, by a flush or by a single-level step
\* of a size_tiered_compaction call, gets an sst_id distinct from that of
\* every SST constructed before: the ids one ToSST hands out are above every
\* earlier id (all at most sst_id) and pairwise distinct
C36_SstIdsDistinct ==
    [][(flushing # <<>> /\ flushing' = <<>>) =>
          LET sst == [id |-> sst_id + 1, data |-> flushing[1]]
              ins == ManifestInsertAndUpdate(
                         [levels |-> levels, max_sst_id |-> max_sst_id],
                         sst).res.levels
              ids == <<sst.id>> \o
                     (IF CanDoCompaction(ins)
                      THEN CompactionIds(ins, 0, sst_id + 2) ELSE <<>>)
          IN  /\ \A a \in DOMAIN ids : ids[a] > sst_id
              /\ \A a, b \in DOMAIN ids : a # b => ids[a] # ids[b]]_vars

\* C37: for every peer of a Leader, 0 <= next_index <= the leader's log
\* index in every reachable state, so that the replicator's next read,
\* At(next_index + 1), is at an index in (start_index, log.index] whenever it
\* ships
C37_NextIndexInRange ==
    \A l \in cluster :
        status[l] = "Leader" =>
            \A f \in Followers(l) :
                /\ 0 <= nextindex[l][f]
                /\ nextindex[l][f] <= rlog[l].index
                /\ nextindex[l][f] >= rlog[l].start_index

\* C38: after any sequence of BlockCache get, put (also on a cached key, with
\* a buffer of another size), remove and clear, the stats' current size is
\* the sum of the byte lengths of the cached blocks and the current count is
\* the number of cached blocks
C38_CacheStatsExact ==
    /\ cache.current_size =
           SeqSum([i \in 1..Len(cache.lru_list) |-> cache.lru_list[i].size])
    /\ cache.current_count = Len(cache.lru_list)

\* C39: every MemTable that Put places on the immutable queue is eventually
\* flushed to an SST and published by the flush thread, with no later Put and
\* no shutdown: whenever the queue holds a MemTable, a state follows in which
\* the queue is empty and no flush is under way
C39_QueuedMemTableFlushed ==
    (inmemtables # <<>>) ~> (inmemtables = <<>> /\ flushing = <<>>)

\* C40: every Manifest the flush thread publishes (InsertAndUpdate, then
\* SizeTieredCompaction when CanDoCompaction) has a level 0 whose byte size is
\* at most the threshold of level 0
C40_PublishedLevel0Bounded ==
    [][(flushing # <<>> /\ flushing' = <<>>) =>
          LevelBinarySize(levels'[1]) <= LevelMaxBinarySize(0)]_vars

\* C40: the flush thread has published a Manifest after a compaction (level 1
\* holds an SST) and then one without (level 0 holds the SST of the flush)
C40_Witness ==
    /\ Len(levels) >= 2
    /\ levels[2] # <<>>
    /\ levels[1] # <<>>
    /\ flushing = <<>>

\* C11: an Append request, heartbeat or entry-carrying, whose term is smaller
\* than the receiver's current term is answered with code -2 and changes
\* neither the receiver's log, its commit index, its role nor its leader_id
C11_StaleAppendRejected ==
    \A l \in cluster : \A f \in Followers(l) :
       status[l] = "Leader" =>
         \A req \in AppendReqs(l, f) :
            req.term < term[f] =>
              \A r \in SolveAppend(f, req) :
                 /\ r.code = -2
                 /\ r.lg = rlog[f]
                 /\ r.status = status[f]
                 /\ r.leader_id = leader_id[f]

====
